---------------------------- MODULE Spec2Model ----------------------------
(***************************************************************************)
(* arpa-gui: the UI/worker bridge (Syncher, core, Request::handle), the    *)
(* resource cache (Downloader<T>), the pipeline panel (PipelineApp) and    *)
(* the application (Application::update, handle_message).                  *)
(*                                                                         *)
(* Eight state machines share this module:                                 *)
(*   Spec / FairSpec : the bridge.  The UI thread (Syncher::new, request,  *)
(*                     run_pipeline, Application::update) and the worker   *)
(*                     task (core) with the two channels between them.     *)
(*   SpecCache       : one Downloader<T> driven through its operations.    *)
(*   SpecPipeline    : one PipelineApp driven through show, set_up,        *)
(*                     set_status, interrupt and reset.                    *)
(*   SpecHandle      : one request given to Request::handle with the       *)
(*                     backend's answers, and its message handled.         *)
(*   SpecApp         : the application's frames with the cache applets,    *)
(*                     over the bridge.                                    *)
(*   SpecPanel       : the application's frames with the pulsar tab and    *)
(*                     the pipeline panel, over the bridge, with progress  *)
(*                     events and a worker that can end.                   *)
(*   SpecRun         : Application::handle_message on the PipelineStatus   *)
(*                     messages of a run, diagnostics included.            *)
(*   SpecEdit        : the application's frames with the cache applets,    *)
(*                     downloads by id, the delete buttons and the         *)
(*                     transaction buttons, over the bridge.               *)
(* Each specification leaves the other machines' variables unchanged.      *)
(***************************************************************************)
EXTENDS Integers, Sequences, FiniteSets, TLC

(***************************************************************************)
(* Bounds of the model.                                                    *)
(***************************************************************************)
\* Requests the UI enqueues in one run of the bridge.
MaxRequests == 2
\* Progress callbacks pipeline::cook makes in one run of the bridge.
MaxStatus == 2
\* Item ids range over 1..MaxId.
MaxId == 2

(***************************************************************************)
(* Option<T>: None is the empty tuple, Some(x) the one-element tuple.      *)
(***************************************************************************)
None == <<>>
Some(x) == <<x>>

(***************************************************************************)
(* Protocol: requests and messages (syncher/request.rs).                   *)
(***************************************************************************)
DataTypes == {"Pulsar", "Ephemeride", "Toa"}
FetchTypes == {"All", "Id"}

\* A request without the fields its arm of Request::handle does not read.
Req(kind, dt, ft) == [kind |-> kind, dt |-> dt, ft |-> ft]

\* The requests the UI issues through Syncher::request in this model: a
\* transaction control, a download and an insert.  RunPipeline goes through
\* Syncher::run_pipeline.
IssuedRequests ==
    { Req("Commit", "-", "-"),
      Req("Download", "Pulsar", "All"),
      Req("AddPar", "-", "-") }

\* Errors Archivist::new can fail with, and errors a backend call can fail
\* with while a request is handled.
ConnectErrors == {"ConfigError", "DbError"}
BackendErrors == {"DbError"}

\* pipeline::Status values the progress callback is invoked with.
Statuses == {"Copying", "Finished"}

\* The variants of Message.
MessageKinds ==
    {"Error", "Connected", "CommitSuccess", "RollbackSuccess", "ItemAdded",
     "ItemDeleted", "ItemUpdated", "Pulsars", "SinglePulsar", "Ephemerides",
     "SingleEphemeride", "TOAs", "SingleTOA", "PipesSetUp",
     "PipelineFinished", "PipelineStatus"}

\* A message on the inbound channel.  req is the id of the request it
\* answers (0 for the connection messages); arg is the error of an Error
\* and the status of a PipelineStatus.
Msg(kind, req, arg) == [kind |-> kind, req |-> req, arg |-> arg]

\* The message Request::handle maps a successful backend result to.
SuccessKind(r) ==
    CASE r.kind = "Commit" -> "CommitSuccess"
      [] r.kind = "Rollback" -> "RollbackSuccess"
      [] r.kind = "DeleteItem" -> "ItemDeleted"
      [] r.kind = "Download" /\ r.dt = "Pulsar" /\ r.ft = "All" -> "Pulsars"
      [] r.kind = "Download" /\ r.dt = "Pulsar" /\ r.ft = "Id" -> "SinglePulsar"
      [] r.kind = "AddPulsar" -> "ItemAdded"
      [] r.kind = "UpdatePulsar" -> "ItemUpdated"
      [] r.kind = "Download" /\ r.dt = "Ephemeride" /\ r.ft = "All" -> "Ephemerides"
      [] r.kind = "Download" /\ r.dt = "Ephemeride" /\ r.ft = "Id" -> "SingleEphemeride"
      [] r.kind = "AddPar" -> "ItemAdded"
      [] r.kind = "UpdatePar" -> "ItemAdded"
      [] r.kind = "Download" /\ r.dt = "Toa" /\ r.ft = "All" -> "TOAs"
      [] r.kind = "Download" /\ r.dt = "Toa" /\ r.ft = "Id" -> "SingleTOA"
      [] r.kind = "SetupPipes" -> "PipesSetUp"
      [] r.kind = "RunPipeline" -> "PipelineFinished"

\* A terminal message answers a request; PipelineStatus is a progress event
\* and Connected (and the Error of a failed connection) answer no request.
IsTerminal(m) == m.req > 0 /\ m.kind # "PipelineStatus"

VARIABLES
    \* ---- bridge: UI side ----
    ui,          \* position of the UI thread: "start", "handshake", "running", "failed"
    newResult,   \* what Syncher::new returned: None, Some("Ok") or Some(error)
    handled,     \* the messages Application::update passed to handle_message
    \* ---- bridge: channels ----
    requests,    \* outbound channel (txr/rxr): requests not yet received
    inbox,       \* inbound channel (txm/rxm): messages not yet received
    \* ---- bridge: worker side ----
    worker,      \* position of core: "unspawned", "connecting", "recv",
                 \* "handling", "send", "stopped"
    current,     \* the request core is handling: None or Some(request)
    response,    \* the message Request::handle returned: None or Some(message)
    inflight,    \* ids of the requests a backend operation is running for
    \* ---- bridge: history ----
    nreq,        \* number of requests enqueued so far (the next id is nreq + 1)
    pushed,      \* every message sent on the inbound channel, in order
    consumed,    \* the messages the handshake of Syncher::new received
    produced,    \* the progress events cook's callback was invoked with
    failed,      \* ids of the requests whose backend call returned an error
    \* ---- resource cache: the fields of Downloader<T> ----
    data,        \* Vec<T>: the items
    selected,    \* Option<usize>: the selected index
    sort_by,     \* the column of the last sort
    fetch_type,  \* FetchType: the scope chosen in the download menu
    fetching,    \* a download was triggered and not yet answered
    action,      \* DownloaderAction: the action pending for the applet
    \* ---- resource cache: interface ----
    call,        \* the last operation called, its argument and what it returned
    \* ---- pipeline: the field of PipelineApp ----
    state,       \* PipeStage
    \* ---- pipeline: interface ----
    pcall,       \* the last operation of PipelineApp called: its name, its
                 \* argument and the stage it found
    \* ---- application: the applets of Application ----
    pulsars,     \* the Downloader of PulsarsApp: data, selected, fetching
    ephemerides, \* the Downloader of EphemerideApp
    toas,        \* the Downloader of TOAsApp
    tab,         \* the applet shown
    has_live_transaction,
                 \* Application's flag: a mutation was answered since the
                 \* last CommitSuccess or RollbackSuccess
    \* ---- application: history ----
    issued,      \* every request enqueued, in order: issued[id] has the id
    \* ---- Request::handle as a function ----
    job,         \* a request, what the backend will answer to each call, and
                 \* the applets when the request's answer arrives
    answer       \* None, or the message and the backend calls of handling
                 \* job, and whether the message was handled

bridgeVars == <<ui, newResult, handled, requests, inbox, worker, current,
                response, inflight, nreq, pushed, consumed, produced,
                failed>>

cacheVars == <<data, selected, sort_by, fetch_type, fetching, action, call>>

pipeVars == <<state, pcall>>

appletVars == <<pulsars, ephemerides, toas, tab, issued, has_live_transaction>>

handleVars == <<job, answer>>

appVars == <<pipeVars, appletVars, handleVars>>

vars == <<bridgeVars, cacheVars, appVars>>

\* A pipeline::Status: the variant and the number it carries (the count of
\* GotTOAs and ArchivedTOAs, the duration of Finished; 0 for the others).
Status(name, n) == [name |-> name, n |-> n]

\* Status::FinishedDiagnostic { diagnostic, passed }
FinishedDiagnostic(diagnostic, passed) ==
    [name |-> "FinishedDiagnostic", diagnostic |-> diagnostic,
     passed |-> passed]

\* RunInfo::default(); Status::default() is Idle.  diagnosed is the pair of
\* the number of diagnostics announced and the outcomes received.
DefaultInfo ==
    [status |-> Status("Idle", 0), errored |-> FALSE,
     generated_toas |-> None, archived_toas |-> None,
     diagnosed |-> <<0, <<>>>>, done |-> None]

\* A PipeStage.  The fields a variant does not carry hold the values below:
\* raw (a text, a sequence of characters), ephemeride and template are the
\* entries of Relaxed and SettingUp,
\* metas the resolved records of SetUp, info the RunInfo of Running.
Stage(kind, raw, ephemeride, template, metas, info) ==
    [kind |-> kind, raw |-> raw, ephemeride |-> ephemeride,
     template |-> template, metas |-> metas, info |-> info]

Invalid == Stage("Invalid", <<>>, 0, 0, None, DefaultInfo)
Relaxed(raw, ephemeride, template) ==
    Stage("Relaxed", raw, ephemeride, template, None, DefaultInfo)
SettingUp(raw, ephemeride, template) ==
    Stage("SettingUp", raw, ephemeride, template, None, DefaultInfo)
SetUpStage(raw, ephemeride, template) ==
    Stage("SetUp", <<>>, 0, 0, <<raw, ephemeride, template>>, DefaultInfo)
Running(info) == Stage("Running", <<>>, 0, 0, None, info)

\* PipeStage::default(): String::new() is the empty text.
DefaultStage == Relaxed(<<>>, 0, 0)

\* Downloader::new
InitCache ==
    /\ data = <<>>
    /\ selected = None
    /\ sort_by = 0
    /\ fetch_type = "All"
    /\ fetching = FALSE
    /\ action = <<"None">>
    /\ call = [op |-> "new", arg |-> None, ret |-> None, tick |-> 0]

\* PipelineApp::new
InitPipeline ==
    /\ state = DefaultStage
    /\ pcall = [name |-> "new", arg |-> None, pre |-> DefaultStage]

\* A Downloader as the application sees it between two frames: action is
\* taken in the frame that sets it.
Applet(items, sel, fetch) ==
    [data |-> items, selected |-> sel, fetching |-> fetch]

\* PulsarsApp::new, EphemerideApp::new, TOAsApp::new and the first tab.
InitApplets ==
    /\ pulsars = Applet(<<>>, None, FALSE)
    /\ ephemerides = Applet(<<>>, None, FALSE)
    /\ toas = Applet(<<>>, None, FALSE)
    /\ tab = "Pulsars"
    /\ has_live_transaction = FALSE
    /\ issued = <<>>

\* No request is given to Request::handle.
InitHandle ==
    /\ job = None
    /\ answer = None

Init ==
    /\ ui = "start"
    /\ newResult = None
    /\ handled = <<>>
    /\ requests = <<>>
    /\ inbox = <<>>
    /\ worker = "unspawned"
    /\ current = None
    /\ response = None
    /\ inflight = {}
    /\ nreq = 0
    /\ pushed = <<>>
    /\ consumed = <<>>
    /\ produced = <<>>
    /\ failed = {}
    /\ InitCache
    /\ InitPipeline
    /\ InitApplets
    /\ InitHandle

(***************************************************************************)
(* Channel and protocol operations.                                        *)
(***************************************************************************)
\* core's local send on the inbound channel: the message is appended (the
\* failure branch, a dropped receiver, is decided by ReceiverAlive).
Send(channel, message) == Append(channel, message)

\* The inbound receiver rxm lives in Syncher::new and then in the Syncher;
\* it is dropped when new returns an error.
ReceiverAlive == ui \in {"handshake", "running"}

\* Faulty variant of WorkerAlive: the outbound channel never closes.
WorkerAliveAlways == TRUE

\* The outbound receiver rxr lives as long as core runs.
WorkerAlive == worker \notin {"unspawned", "stopped"}

\* Faulty variant of RequestSend: the outbound channel used as a stack.
RequestSendFront(channel, request) == <<request>> \o channel

\* Syncher::request: the request is appended to the outbound channel.
RequestSend(channel, request) == Append(channel, request)

\* Faulty variant of CheckInbox: the channel is drained and only the newest
\* message is returned.
CheckInboxDrain(channel) ==
    IF channel = <<>>
    THEN [message |-> None, rest |-> channel]
    ELSE [message |-> Some(channel[Len(channel)]), rest |-> <<>>]

\* Syncher::check_inbox: try_recv().ok() takes at most the first pending
\* message and leaves the others in the channel.
CheckInbox(channel) ==
    IF channel = <<>>
    THEN [message |-> None, rest |-> channel]
    ELSE [message |-> Some(Head(channel)), rest |-> Tail(channel)]

\* Faulty variant of HandshakeOutcome: an Error is skipped like any other
\* message.
HandshakeOutcomeIgnoreError(m) ==
    CASE m.kind = "Connected" -> "done"
      [] OTHER -> "continue"

\* The match of Syncher::new on a received message: fail, succeed or go on
\* waiting.
HandshakeOutcome(m) ==
    CASE m.kind = "Error" -> "fail"
      [] m.kind = "Connected" -> "done"
      [] OTHER -> "continue"

\* Request::handle: the backend's result is mapped to the success message
\* of the request's arm, an error to Message::Error.
Handle(r, outcome) ==
    IF outcome = "Ok"
    THEN Msg(SuccessKind(r), r.id, "-")
    ELSE Msg("Error", r.id, outcome)

\* Faulty variant of CallbackSend: the status is not forwarded.
CallbackSendDrop(channel, id, status) == channel

\* The progress callback built by Syncher::run_pipeline: the status is sent
\* on the inbound channel as Message::PipelineStatus.
CallbackSend(channel, id, status) ==
    Append(channel, Msg("PipelineStatus", id, status))

\* Faulty variant of WorkerReady: the next request is taken while the
\* previous one is still handled or its response not yet sent.
WorkerReadyEager == worker \in {"recv", "handling", "send"}

\* core receives the next request only at the top of its loop, after the
\* response of the previous one was sent.
WorkerReady == worker = "recv"

\* Faulty variant of AfterSend: core returns after reporting an error.
AfterSendStopOnError(message) ==
    IF message.kind = "Error" THEN "stopped" ELSE "recv"

\* Where core goes after sending a response: both arms of its match go
\* round the loop.
AfterSend(message) == "recv"

(***************************************************************************)
(* Syncher::new.                                                           *)
(***************************************************************************)
\* tokio::runtime::Runtime::new()? fails: new returns before a worker exists.
NewRuntimeFails ==
    /\ ui = "start"
    /\ ui' = "failed"
    /\ newResult' = Some("IoError")
    /\ UNCHANGED <<handled, requests, inbox, worker, current, response,
                   inflight, nreq, pushed, consumed, produced, failed,
                   cacheVars, appVars>>

\* The channels are created and core is spawned; new enters its wait loop.
NewSpawn ==
    /\ ui = "start"
    /\ ui' = "handshake"
    /\ worker' = "connecting"
    /\ UNCHANGED <<newResult, handled, requests, inbox, current, response,
                   inflight, nreq, pushed, consumed, produced, failed,
                   cacheVars, appVars>>

\* One round of the wait loop: rxm.recv() blocks until a message is there.
Handshake ==
    /\ ui = "handshake"
    /\ inbox # <<>>
    /\ LET m == Head(inbox)
           o == HandshakeOutcome(m)
       IN /\ inbox' = Tail(inbox)
          /\ consumed' = Append(consumed, m)
          /\ ui' = CASE o = "fail" -> "failed"
                     [] o = "done" -> "running"
                     [] OTHER -> "handshake"
          /\ newResult' = CASE o = "fail" -> Some(m.arg)
                            [] o = "done" -> Some("Ok")
                            [] OTHER -> newResult
    /\ UNCHANGED <<handled, requests, worker, current, response, inflight,
                   nreq, pushed, produced, failed,
                   cacheVars, appVars>>

(***************************************************************************)
(* The UI thread once the bridge is built.                                 *)
(***************************************************************************)
\* Syncher::request(r) and Syncher::run_pipeline (r.kind = "RunPipeline"):
\* a failed send (the worker is gone) is logged and nothing else happens.
Enqueue(r) ==
    /\ ui = "running"
    /\ nreq < MaxRequests
    /\ IF WorkerAlive
       THEN /\ requests' = RequestSend(requests,
                   [id |-> nreq + 1, kind |-> r.kind, dt |-> r.dt, ft |-> r.ft])
            /\ nreq' = nreq + 1
       ELSE UNCHANGED <<requests, nreq>>
    /\ UNCHANGED <<ui, newResult, handled, inbox, worker, current, response,
                   inflight, pushed, consumed, produced, failed,
                   cacheVars, appVars>>

Request == \E r \in IssuedRequests : Enqueue(r)

RunPipeline == Enqueue(Req("RunPipeline", "-", "-"))

\* Application::update: one check_inbox, and handle_message on what it
\* returned.  A frame that finds the inbox empty changes nothing here.
Update ==
    /\ ui = "running"
    /\ LET got == CheckInbox(inbox)
       IN /\ got.message # None
          /\ inbox' = got.rest
          /\ handled' = Append(handled, got.message[1])
    /\ UNCHANGED <<ui, newResult, requests, worker, current, response,
                   inflight, nreq, pushed, consumed, produced, failed,
                   cacheVars, appVars>>

(***************************************************************************)
(* core, the worker task.                                                  *)
(***************************************************************************)
\* Archivist::new succeeded: Connected is sent and the loop is entered.
WorkerConnectOk ==
    /\ worker = "connecting"
    /\ IF ReceiverAlive
       THEN /\ inbox' = Send(inbox, Msg("Connected", 0, "-"))
            /\ pushed' = Append(pushed, Msg("Connected", 0, "-"))
            /\ worker' = "recv"
       ELSE /\ worker' = "stopped"
            /\ UNCHANGED <<inbox, pushed>>
    /\ UNCHANGED <<ui, newResult, handled, requests, current, response,
                   inflight, nreq, consumed, produced, failed,
                   cacheVars, appVars>>

\* Archivist::new failed: the error is sent and core returns.
WorkerConnectErr ==
    \E e \in ConnectErrors :
        /\ worker = "connecting"
        /\ IF ReceiverAlive
           THEN /\ inbox' = Send(inbox, Msg("Error", 0, e))
                /\ pushed' = Append(pushed, Msg("Error", 0, e))
           ELSE UNCHANGED <<inbox, pushed>>
        /\ worker' = "stopped"
        /\ UNCHANGED <<ui, newResult, handled, requests, current, response,
                       inflight, nreq, consumed, produced, failed,
                   cacheVars, appVars>>

\* receiver.recv().await returned a request; its handling starts.
WorkerRecv ==
    /\ WorkerReady
    /\ requests # <<>>
    /\ current' = Some(Head(requests))
    /\ requests' = Tail(requests)
    /\ inflight' = inflight \cup {Head(requests).id}
    /\ worker' = "handling"
    /\ UNCHANGED <<ui, newResult, handled, inbox, response, nreq, pushed,
                   consumed, produced, failed,
                   cacheVars, appVars>>

\* pipeline::cook invokes the progress callback while RunPipeline is handled.
WorkerCallback ==
    \E s \in Statuses :
        /\ worker = "handling"
        /\ current # None
        /\ current[1].kind = "RunPipeline"
        /\ Len(produced) < MaxStatus
        /\ produced' = Append(produced, [req |-> current[1].id, status |-> s])
        /\ IF ReceiverAlive
           THEN /\ inbox' = CallbackSend(inbox, current[1].id, s)
                /\ pushed' = CallbackSend(pushed, current[1].id, s)
           ELSE UNCHANGED <<inbox, pushed>>
        /\ UNCHANGED <<ui, newResult, handled, requests, worker, current,
                       response, inflight, nreq, consumed, failed,
                   cacheVars, appVars>>

\* request.handle(&mut archivist).await returned.
WorkerHandleDone ==
    \E outcome \in {"Ok"} \cup BackendErrors :
        /\ worker = "handling"
        /\ current # None
        /\ response' = Some(Handle(current[1], outcome))
        /\ inflight' = inflight \ {current[1].id}
        /\ current' = None
        /\ worker' = "send"
        /\ failed' = IF outcome = "Ok" THEN failed ELSE failed \cup {current[1].id}
        /\ UNCHANGED <<ui, newResult, handled, requests, inbox, nreq, pushed,
                       consumed, produced, cacheVars, appVars>>

\* The response is sent; core returns if the receiver is gone.
WorkerSend ==
    /\ worker = "send"
    /\ response # None
    /\ IF ReceiverAlive
       THEN /\ inbox' = Send(inbox, response[1])
            /\ pushed' = Append(pushed, response[1])
            /\ worker' = AfterSend(response[1])
       ELSE /\ worker' = "stopped"
            /\ UNCHANGED <<inbox, pushed>>
    /\ response' = None
    /\ UNCHANGED <<ui, newResult, handled, requests, current, inflight, nreq,
                   consumed, produced, failed,
                   cacheVars, appVars>>

WorkerNext ==
    \/ WorkerConnectOk
    \/ WorkerConnectErr
    \/ WorkerRecv
    \/ WorkerCallback
    \/ WorkerHandleDone
    \/ WorkerSend

Next ==
    \/ NewRuntimeFails
    \/ NewSpawn
    \/ Handshake
    \/ Request
    \/ RunPipeline
    \/ Update
    \/ WorkerConnectOk
    \/ WorkerConnectErr
    \/ WorkerRecv
    \/ WorkerCallback
    \/ WorkerHandleDone
    \/ WorkerSend

Spec == Init /\ [][Next]_vars

\* The tokio runtime keeps polling the spawned task, every backend call
\* returns, and the thread blocked in Syncher::new wakes up when a message
\* arrives.  Nothing is assumed of update: eframe calls it when there is
\* input, and the application never requests a repaint.
FairSpec ==
    /\ Spec
    /\ WF_vars(WorkerNext)
    /\ WF_vars(WorkerHandleDone)
    /\ WF_vars(Handshake)

(***************************************************************************)
(* Observations used by the properties.                                    *)
(***************************************************************************)
\* The ids of the requests the terminal messages of a sequence answer.
RECURSIVE TerminalReqs(_)
TerminalReqs(ms) ==
    IF ms = <<>> THEN <<>>
    ELSE IF IsTerminal(Head(ms))
         THEN <<Head(ms).req>> \o TerminalReqs(Tail(ms))
         ELSE TerminalReqs(Tail(ms))

\* <<1, 2, ..., n>>
Iota(n) == [i \in 1..n |-> i]

\* The messages sent on the inbound channel after the handshake ended.
PushedSinceHandshake == SubSeq(pushed, Len(consumed) + 1, Len(pushed))

\* What check_inbox has returned so far followed by what it will return,
\* call after call, from the messages now in the inbound channel.
Observable == handled \o inbox

\* Request r is answered: its terminal message was returned by check_inbox
\* or waits in the inbound channel for it.
Answered(r) ==
    \E i \in 1..Len(Observable) :
        IsTerminal(Observable[i]) /\ Observable[i].req = r

(***************************************************************************)
(* Properties of the bridge.                                               *)
(***************************************************************************)
\* C1: every request enqueued while the worker is alive gets exactly one
\* terminal message (its success message or Error), which eventually is
\* there for check_inbox, and check_inbox returns the terminal messages in
\* the order the requests were enqueued.
C1_EveryRequestAnswered ==
    /\ [](\E n \in 0..nreq : TerminalReqs(handled) = Iota(n))
    /\ [](\E n \in 0..nreq : TerminalReqs(Observable) = Iota(n))
    /\ \A r \in 1..MaxRequests : (nreq >= r) ~> Answered(r)

\* Two requests were answered in order, one of them with an Error.
C1_Witness ==
    /\ TerminalReqs(handled) = <<1, 2>>
    /\ \E i \in 1..Len(handled) : handled[i].kind = "Error"
    /\ \E i \in 1..Len(handled) :
          IsTerminal(handled[i]) /\ handled[i].kind # "Error"

\* C2: a frame (one Application::update) takes at most one message out of
\* the inbound queue, and whatever accumulates there is passed to
\* handle_message once each, in the order it was pushed: the handled
\* messages followed by the pending ones are exactly the messages pushed.
C2_OnePerFrameNoLoss ==
    /\ [](ui = "running" => handled \o inbox = PushedSinceHandshake)
    /\ [][/\ Len(handled') <= Len(handled) + 1
          /\ Len(inbox') >= Len(inbox) - 1]_vars

\* A burst: a message was handled while two more are pending.
C2_Witness == Len(handled) >= 1 /\ Len(inbox) >= 2

\* C3: at most one request is handled against the backend at any time, and
\* request k is handled only once the terminal messages of requests
\* 1..k-1 have been pushed.
C3_Sequential ==
    /\ Cardinality(inflight) <= 1
    /\ \A k \in inflight : TerminalReqs(pushed) = Iota(k - 1)
    /\ inflight # {} <=> worker = "handling"

\* The second request is being handled.
C3_Witness == inflight = {2} /\ TerminalReqs(pushed) = <<1>>

\* C4: a request whose backend call failed is answered by Message::Error
\* and by nothing else, core keeps running, and a request enqueued after the
\* failed one is still answered.
C4_ErrorKeepsWorkerRunning ==
    /\ [](\A k \in failed :
            /\ WorkerAlive
            /\ \/ response # None /\ response[1] \in
                      {Msg("Error", k, e) : e \in BackendErrors}
               \/ \E i \in 1..Len(pushed) :
                      pushed[i] \in {Msg("Error", k, e) : e \in BackendErrors}
            /\ \A i \in 1..Len(pushed) :
                   IsTerminal(pushed[i]) /\ pushed[i].req = k
                       => pushed[i].kind = "Error")
    /\ \A k \in 1..MaxRequests : \A r \in (k + 1)..MaxRequests :
          (k \in failed /\ nreq >= r) ~> Answered(r)

\* The first request failed and the second was answered with success.
C4_Witness ==
    /\ 1 \in failed
    /\ \E i \in 1..Len(Observable) :
          /\ IsTerminal(Observable[i])
          /\ Observable[i].req = 2
          /\ Observable[i].kind # "Error"

\* C5: Syncher::new returns only on the first Connected or Error it
\* receives.  On Connected it returns the bridge with core in its loop; on
\* Error it returns that error, core has returned and no request was ever
\* enqueued or handled.  Any other message is skipped without ending the
\* wait.
C5_Handshake ==
    /\ ui = "handshake" => newResult = None
    /\ (\E i \in 1..Len(consumed) : consumed[i].kind \in {"Connected", "Error"})
          => ui \in {"running", "failed"}
    /\ ui = "running" =>
          /\ newResult = Some("Ok")
          /\ consumed # <<>>
          /\ consumed[Len(consumed)].kind = "Connected"
          /\ WorkerAlive
    /\ (ui = "failed" /\ worker # "unspawned") =>
          /\ consumed # <<>>
          /\ consumed[Len(consumed)].kind = "Error"
          /\ newResult = Some(consumed[Len(consumed)].arg)
          /\ worker = "stopped"
          /\ nreq = 0 /\ inflight = {} /\ failed = {}
          /\ TerminalReqs(pushed) = <<>>
    /\ \A i \in 1..(Len(consumed) - 1) :
          consumed[i].kind \notin {"Connected", "Error"}
    /\ \A k \in MessageKinds \ {"Connected", "Error"} :
          HandshakeOutcome(Msg(k, 0, "-")) = "continue"

\* Syncher::new failed with the error the worker reported.
C5_Witness ==
    /\ ui = "failed"
    /\ newResult = Some("DbError")
    /\ consumed = <<Msg("Error", 0, "DbError")>>

Ids == 1..MaxId
Vals == {0, 1}
Items == [id : Ids, val : Vals]
Columns == {0, 1}

\* The item sequences of at most n items.
RECURSIVE ItemSeqs(_)
ItemSeqs(n) ==
    IF n = 0 THEN {<<>>}
    ELSE LET shorter == ItemSeqs(n - 1)
         IN shorter \cup
            {Append(q, x) : q \in {t \in shorter : Len(t) = n - 1}, x \in Items}

UniqueIds(q) == \A i, j \in 1..Len(q) : q[i].id = q[j].id => i = j

\* What a bulk download (Message::Pulsars, Ephemerides, TOAs) can carry:
\* the rows of a table with a primary key.
Tables == {q \in ItemSeqs(MaxId) : UniqueIds(q)}

\* DownloaderAction::Download(fetch_type)
Download(ft) == <<"Download", ft>>

\* Item::cmp_by(a, b, index)
CmpBy(a, b, index) ==
    CASE index = 0 ->
            IF a.id < b.id THEN "Less"
            ELSE IF a.id > b.id THEN "Greater" ELSE "Equal"
      [] index = 1 ->
            IF a.val < b.val THEN "Less"
            ELSE IF a.val > b.val THEN "Greater" ELSE "Equal"
      [] OTHER -> "Equal"

\* par_sort_by: a stable sort by the comparator.
RECURSIVE InsertSorted(_, _, _)
InsertSorted(x, q, index) ==
    IF q = <<>> THEN <<x>>
    ELSE IF CmpBy(Head(q), x, index) # "Less"
         THEN <<x>> \o q
         ELSE <<Head(q)>> \o InsertSorted(x, Tail(q), index)

RECURSIVE SortedBy(_, _)
SortedBy(q, index) ==
    IF q = <<>> THEN <<>>
    ELSE InsertSorted(Head(q), SortedBy(Tail(q), index), index)

\* iter().position(|i| i.id() == id): the first index (from 0) of an item
\* with that id.
Position(q, id) ==
    IF \E i \in 1..Len(q) : q[i].id = id
    THEN Some((CHOOSE i \in 1..Len(q) :
                  /\ q[i].id = id
                  /\ \A j \in 1..(i - 1) : q[j].id # id) - 1)
    ELSE None

\* Faulty variant of SelectResult: an index that is already selected stays
\* selected.
SelectResultSticky(items, sel, index) == Some(index)

\* Downloader::select: the selection it leaves (which it also returns).  An
\* index out of range first deselects; then the index is toggled against
\* what is selected.
SelectResult(items, sel, index) ==
    LET s1 == IF index >= Len(items) THEN None ELSE sel
    IN IF s1 = Some(index) THEN None ELSE Some(index)

\* Downloader::add, before its select: the item replaces the one with its
\* id or is pushed; index is the one select is then called with.
AddResult(items, item) ==
    LET pos == Position(items, item.id)
    IN IF pos # None
       THEN [items |-> [items EXCEPT ![pos[1] + 1] = item], index |-> pos[1]]
       ELSE [items |-> Append(items, item), index |-> Len(items)]

\* Downloader::selected_id: data[i] panics on an index out of range.
SelectedIdPanics == selected # None /\ selected[1] >= Len(data)

\* Downloader::selected_id, where it does not panic.
SelectedId ==
    IF selected = None THEN None ELSE Some(data[selected[1] + 1].id)

\* The record of a call; tick alternates so that two equal calls in a row
\* are two steps.
Called(op, arg, ret) ==
    [op |-> op, arg |-> arg, ret |-> ret, tick |-> 1 - call.tick]

\* set(items)
Set ==
    \E items \in Tables :
        /\ data' = items
        /\ fetching' = FALSE
        /\ call' = Called("set", items, None)
        /\ UNCHANGED <<selected, sort_by, fetch_type, action, bridgeVars, appVars>>

\* add(item)
Add ==
    \E item \in Items :
        LET r == AddResult(data, item)
        IN /\ data' = r.items
           /\ selected' = SelectResult(r.items, selected, r.index)
           /\ fetching' = FALSE
           /\ call' = Called("add", item, None)
           /\ UNCHANGED <<sort_by, fetch_type, action, bridgeVars, appVars>>

\* select(index), for the indices of the items and for indices out of range
\* (a cache holds at most MaxId items)
Select ==
    \E index \in 0..MaxId :
        /\ selected' = SelectResult(data, selected, index)
        /\ call' = Called("select", index, selected')
        /\ UNCHANGED <<data, sort_by, fetch_type, fetching, action, bridgeVars, appVars>>

\* deselect()
Deselect ==
    /\ selected' = None
    /\ call' = Called("deselect", None, None)
    /\ UNCHANGED <<data, sort_by, fetch_type, fetching, action, bridgeVars, appVars>>

\* The sort button of a column header in table(), which shows the header
\* only when there are items.
Sort ==
    \E index \in Columns :
        /\ data # <<>>
        /\ sort_by' = index
        /\ data' = SortedBy(data, index)
        /\ call' = Called("sort", index, None)
        /\ UNCHANGED <<selected, fetch_type, fetching, action, bridgeVars, appVars>>

\* The download button of download_menu; while fetching a spinner replaces it.
DownloadClick ==
    /\ ~fetching
    /\ fetching' = TRUE
    /\ action' = Download(fetch_type)
    /\ call' = Called("download", fetch_type, None)
    /\ UNCHANGED <<data, selected, sort_by, fetch_type, bridgeVars, appVars>>

\* The delete button of action_bar, enabled while an item is selected:
\* the action is Delete(selected_id()).  selected_id panics on a selection
\* out of range, which ends the program before the action is stored.
DeleteClick ==
    /\ selected # None
    /\ ~SelectedIdPanics
    /\ action' = <<"Delete", SelectedId>>
    /\ call' = Called("delete", None, None)
    /\ UNCHANGED <<data, selected, sort_by, fetch_type, fetching, bridgeVars,
                   appVars>>

\* Faulty variant of take_action: the pending action stays.
take_actionKeep(a) == [ret |-> a, left |-> a]

\* Downloader::action: what it returns and what it leaves pending.
take_action(a) == [ret |-> a, left |-> <<"None">>]

\* action()
TakeAction ==
    /\ action' = take_action(action).left
    /\ call' = Called("action", None, take_action(action).ret)
    /\ UNCHANGED <<data, selected, sort_by, fetch_type, fetching, bridgeVars,
                   appVars>>

\* PulsarsApp::select_with_id(id): select is called with the index of the
\* first item with that id; with no such item nothing is called.
SelectWithId ==
    \E id \in Ids :
        LET pos == Position(data, id)
        IN /\ selected' = IF pos = None
                          THEN selected
                          ELSE SelectResult(data, selected, pos[1])
           /\ call' = Called("select_with_id", id, None)
           /\ UNCHANGED <<data, sort_by, fetch_type, fetching, action,
                          bridgeVars, appVars>>

NextCache ==
    \/ Set
    \/ Add
    \/ Select
    \/ Deselect
    \/ Sort
    \/ DownloadClick
    \/ DeleteClick
    \/ TakeAction
    \/ SelectWithId

SpecCache == Init /\ [][NextCache]_vars

(***************************************************************************)
(* Properties of the resource cache.                                       *)
(***************************************************************************)
\* The selection is absent or a valid index into data.
SelectionInBounds == selected = None \/ selected[1] < Len(data)

\* C7: in every reachable state of a Downloader the selection is absent or
\* an index strictly smaller than the number of items, so that selected_id
\* never indexes out of bounds.
C7_SelectionInBounds == SelectionInBounds /\ ~SelectedIdPanics

\* C8: select toggles on valid indices.  With nothing selected select(i)
\* returns Some(i); a select(i) right after a select(i) that returned
\* Some(i) returns None; select(j) with another index selected returns
\* Some(j), which replaces the previous selection.  What select returns is
\* the selection it leaves.
C8_SelectToggles ==
    [][(call'.op = "select" /\ call'.arg < Len(data)) =>
          LET i == call'.arg
          IN /\ call'.ret = selected'
             /\ selected = None => call'.ret = Some(i)
             /\ (call.op = "select" /\ call.arg = i /\ call.ret = Some(i))
                   => call'.ret = None
             /\ (selected # None /\ selected # Some(i))
                   => call'.ret = Some(i)]_vars

\* A second select of the same valid index has just deselected it.
C8_Witness ==
    /\ call.op = "select"
    /\ call.arg < Len(data)
    /\ call.ret = None
    /\ selected = None

\* C9: select with an index at or beyond the number of items deselects: it
\* returns None and nothing is selected afterwards.
C9_OutOfRangeDeselects ==
    (call.op = "select" /\ call.arg >= Len(data))
        => (call.ret = None /\ selected = None)

\* What C10 says of one add(item) step from data to data'.
UpsertStep ==
    LET item == call'.arg
        n == Len(data)
    IN IF \E i \in 1..n : data[i].id = item.id
       THEN /\ Len(data') = n
            /\ \A i \in 1..n :
                  data'[i] = IF data[i].id = item.id THEN item ELSE data[i]
       ELSE /\ Len(data') = n + 1
            /\ data'[n + 1] = item
            /\ \A i \in 1..n : data'[i] = data[i]
            /\ selected' = Some(n)

\* C10: add(item) is an upsert by id.  With the id present the length is
\* unchanged, the item takes the place of the one with its id and the other
\* items are untouched; with a new id the item is appended, the length grows
\* by one and the new item is the selected one.
C10_AddUpserts == [][call'.op = "add" => UpsertStep]_vars

\* Add does what C10 says whenever it starts from a selection in bounds.
AddUpsertsFromSelectionInBounds ==
    [][(call'.op = "add" /\ SelectionInBounds) => UpsertStep]_vars

\* C11: after add(item) the added or replaced item is the selected one, also
\* when an item with its id was present and selected before the call.
C11_AddSelectsItem ==
    call.op = "add" =>
        /\ selected # None
        /\ selected[1] < Len(data)
        /\ data[selected[1] + 1] = call.arg

\* C12: set(items) replaces the whole sequence by items, clears the fetch
\* flag and leaves nothing selected.
C12_SetClearsSelection ==
    call.op = "set" =>
        /\ data = call.arg
        /\ ~fetching
        /\ selected = None

\* q is p with its items in another order.
Permutes(p, q) ==
    /\ Len(p) = Len(q)
    /\ \E f \in [1..Len(p) -> 1..Len(p)] :
           /\ \A i, j \in 1..Len(p) : f[i] = f[j] => i = j
           /\ \A i \in 1..Len(p) : q[i] = p[f[i]]

\* q is in the order of cmp_by for the column index.
Ordered(q, index) ==
    \A i \in 1..(Len(q) - 1) : CmpBy(q[i], q[i + 1], index) # "Greater"

\* C39: a sort by a column permutes the items, leaves them in the order
\* of cmp_by for that column, and the item at the selected index after it
\* has the id of the item that was selected before it.
C39_SortKeepsSelectedItem ==
    [][call'.op = "sort" =>
          /\ Permutes(data, data')
          /\ Ordered(data', call'.arg)
          /\ (selected # None /\ selected[1] < Len(data)) =>
                 /\ selected' # None
                 /\ selected'[1] < Len(data')
                 /\ data'[selected'[1] + 1].id = data[selected[1] + 1].id]_vars

\* What the code does of C39: the items are permuted into the order of the
\* column and the selected index is the one it was.
SortKeepsSelectedIndex ==
    [][call'.op = "sort" =>
          /\ Permutes(data, data')
          /\ Ordered(data', call'.arg)
          /\ selected' = selected]_vars

\* C40: after select_with_id(id) with an item of that id in the cache, that
\* item is the selected one, whatever was selected before; with no such
\* item the selection is what it was.
C40_SelectWithIdSelects ==
    [][call'.op = "select_with_id" =>
          IF Position(data, call'.arg) # None
          THEN /\ selected' # None
               /\ selected'[1] < Len(data)
               /\ data[selected'[1] + 1].id = call'.arg
          ELSE selected' = selected]_vars

\* What the code does of C40: the index of the item is toggled, so that the
\* item is selected unless it was selected already, and deselected then.
SelectWithIdToggles ==
    [][call'.op = "select_with_id" =>
          LET pos == Position(data, call'.arg)
          IN selected' = CASE pos = None -> selected
                           [] pos # None /\ selected = pos -> None
                           [] OTHER -> pos]_vars

(***************************************************************************)
(* The pipeline state machine: PipelineApp (app/pipeline.rs).              *)
(***************************************************************************)
\* Requests the pipeline panel enqueues in one run of SpecPipeline.
MaxPipeRequests == 1

\* A text is a sequence of characters.
Chars == {" ", "7"}
Texts == {<<>>} \cup {<<c>> : c \in Chars}

\* The values of the ephemeride and template entries (DragValue, from 0) and
\* the ids of resolved records.
Keys == {0, 1}
MetaIds == Keys \ {0}

\* The decimal digits of a natural number: i32::to_string.
Digits == <<"0", "1", "2", "3", "4", "5", "6", "7", "8", "9">>

RECURSIVE to_string(_)
to_string(n) ==
    IF n < 10
    THEN <<Digits[n + 1]>>
    ELSE to_string(n \div 10) \o <<Digits[(n % 10) + 1]>>

\* The resolved records a PipesSetUp message carries: RawMeta,
\* Option<ParMeta> and TemplateMeta, each by its id.
MetaTriples ==
    {<<r, e, t>> : r \in MetaIds,
                   e \in {None} \cup {Some(i) : i \in MetaIds},
                   t \in MetaIds}

\* The counts a GotTOAs or an ArchivedTOAs event carries.
Counts == {1, 2}

\* pipeline::Status values set_status is called with.
PipelineStatuses ==
    {Status("Copying", 0), Status("Error", 0), Status("Finished", 1)}
        \cup {Status(k, n) : k \in {"GotTOAs", "ArchivedTOAs"}, n \in Counts}

\* What the user does in one frame of the pipeline panel: nothing, a click
\* on a button, an edit of one entry, or a click on the arrow that grabs the
\* id selected in the ephemeride tab (key is that id).
Input(click, raw, key) == [click |-> click, raw |-> raw, key |-> key]

ShowInputs ==
    {Input(c, <<>>, 0) : c \in {"none", "clear", "write", "run", "restart"}}
        \cup {Input("raw", r, 0) : r \in Texts}
        \cup {Input(c, <<>>, k) : c \in {"ephemeride", "template"}, k \in Keys}
        \cup {Input("grab", <<>>, k) : k \in MetaIds}

\* A request of the pipeline panel: SetupPipes with the three texts,
\* RunPipeline with the three resolved records.
PipeReq(kind, args) == [kind |-> kind, dt |-> "-", ft |-> "-", args |-> args]

\* What an operation of the panel leaves: the stage it stored and
\* the request it sent, if any.
Outcome(stage, request) == [state |-> stage, request |-> request]

\* argument_entry: the three entries after the frame's edit.  The text and
\* drag fields are enabled only if active; the arrow is enabled whenever an
\* ephemeride is selected.
argument_entry(st, input, active) ==
    [raw |-> IF active /\ input.click = "raw" THEN input.raw ELSE st.raw,
     ephemeride |->
         IF input.click = "grab" \/ (active /\ input.click = "ephemeride")
         THEN input.key
         ELSE st.ephemeride,
     template |->
         IF active /\ input.click = "template" THEN input.key ELSE st.template]

\* Faulty variant of relaxed_buttons: write sends the request and the
\* entries stay editable.
relaxed_buttonsStay(e, input) ==
    CASE input.click = "write" /\ e.raw # <<>> /\ e.template > 0 ->
             Outcome(Relaxed(e.raw, e.ephemeride, e.template),
                     Some(PipeReq("SetupPipes",
                                  <<e.raw, to_string(e.ephemeride),
                                    to_string(e.template)>>)))
      [] input.click = "clear" -> Outcome(DefaultStage, None)
      [] OTHER -> Outcome(Relaxed(e.raw, e.ephemeride, e.template), None)

\* relaxed_buttons: clear stores the default stage; write (enabled when raw is
\* not empty and template is positive) sends SetupPipes and stores SettingUp;
\* otherwise the entries are stored back.
relaxed_buttons(e, input) ==
    CASE input.click = "write" /\ e.raw # <<>> /\ e.template > 0 ->
             Outcome(SettingUp(e.raw, e.ephemeride, e.template),
                     Some(PipeReq("SetupPipes",
                                  <<e.raw, to_string(e.ephemeride),
                                    to_string(e.template)>>)))
      [] input.click = "clear" -> Outcome(DefaultStage, None)
      [] OTHER -> Outcome(Relaxed(e.raw, e.ephemeride, e.template), None)

\* running_buttons: clear stores the default stage; run calls
\* Syncher::run_pipeline and stores nothing, so that the placeholder show
\* left in self.state stays; otherwise SetUp is stored back.
running_buttons(metas, input) ==
    CASE input.click = "clear" -> Outcome(DefaultStage, None)
      [] input.click = "run" -> Outcome(Invalid, Some(PipeReq("RunPipeline", metas)))
      [] OTHER -> Outcome(SetUpStage(metas[1], metas[2], metas[3]), None)

\* The index running() computes from the status.
msg_index(status) ==
    CASE status.name \in {"Idle", "Error", "Starting"} -> 0
      [] status.name = "Copying" -> 1
      [] status.name = "GotTOAs" -> 5
      [] status.name = "ArchivedTOAs" -> 7
      [] status.name \in {"Diagnosing", "FinishedDiagnostic"} -> 8
      [] status.name = "Finished" -> 9

\* running: what self.state holds when running returns.  "Start over" is
\* shown once the run finished or errored, and a click stores the default.
running(info, input) ==
    IF (msg_index(info.status) = 9 \/ info.errored) /\ input.click = "restart"
    THEN DefaultStage
    ELSE Invalid

\* show: the stage is moved out (Invalid takes its place) and each arm
\* stores the next one.  The Running arm stores Running(info) after running
\* returned, whatever running stored.
show(st, input) ==
    CASE st.kind = "Invalid" -> Outcome(DefaultStage, None)
      [] st.kind = "Relaxed" ->
             relaxed_buttons(argument_entry(st, input, TRUE), input)
      [] st.kind = "SettingUp" ->
             LET e == argument_entry(st, input, FALSE)
             IN Outcome(SettingUp(e.raw, e.ephemeride, e.template), None)
      [] st.kind = "SetUp" -> running_buttons(st.metas, input)
      [] st.kind = "Running" ->
             LET stored == running(st.info, input)
             IN Outcome(Running(st.info), None)

\* Faulty variant of set_up: the ephemeride of the message is dropped.
set_upNoEphemeride(raw, ephemeride, template) ==
    SetUpStage(raw, None, template)

\* set_up
set_up(raw, ephemeride, template) == SetUpStage(raw, ephemeride, template)

\* Faulty variant of interrupt: every stage is reset.
interruptAlways(st) == DefaultStage

\* interrupt
interrupt(st) ==
    IF st.kind \in {"Running", "Invalid"} THEN DefaultStage ELSE st

\* Faulty variant of set_status: errored follows the last status.
set_statusLast(st, status) ==
    LET info == IF st.kind = "Running" THEN st.info ELSE DefaultInfo
        i1 == CASE status.name = "GotTOAs" ->
                       [info EXCEPT !.generated_toas = Some(status.n)]
                [] status.name = "ArchivedTOAs" ->
                       [info EXCEPT !.archived_toas = Some(status.n)]
                [] status.name = "Diagnosing" ->
                       [info EXCEPT !.diagnosed = <<status.n, <<>>>>]
                [] status.name = "FinishedDiagnostic" ->
                       [info EXCEPT !.diagnosed[2] =
                            Append(@, <<status.diagnostic, status.passed>>)]
                [] status.name = "Finished" -> [info EXCEPT !.done = Some(status.n)]
                [] OTHER -> info
    IN Running([i1 EXCEPT !.errored = (status.name = "Error"),
                          !.status = IF status.name = "Error" THEN @ ELSE status])

\* set_status: the RunInfo of a Running stage, a default one otherwise, is
\* updated by the status: an Error sets errored, each count and the
\* duration are assigned from the event, Diagnosing stores its number with
\* an empty list of outcomes, FinishedDiagnostic pushes its outcome, and
\* every status but an Error becomes the current one.
set_status(st, status) ==
    LET info == IF st.kind = "Running" THEN st.info ELSE DefaultInfo
        i1 == CASE status.name = "Error" -> [info EXCEPT !.errored = TRUE]
                [] status.name = "GotTOAs" ->
                       [info EXCEPT !.generated_toas = Some(status.n)]
                [] status.name = "ArchivedTOAs" ->
                       [info EXCEPT !.archived_toas = Some(status.n)]
                [] status.name = "Diagnosing" ->
                       [info EXCEPT !.diagnosed = <<status.n, <<>>>>]
                [] status.name = "FinishedDiagnostic" ->
                       [info EXCEPT !.diagnosed[2] =
                            Append(@, <<status.diagnostic, status.passed>>)]
                [] status.name = "Finished" -> [info EXCEPT !.done = Some(status.n)]
                [] OTHER -> info
    IN Running(IF status.name = "Error" THEN i1 ELSE [i1 EXCEPT !.status = status])

\* reset
reset == DefaultStage

\* The record of a call of PipelineApp.
PCalled(name, arg) == [name |-> name, arg |-> arg, pre |-> state]

\* Syncher::new returned Ok: it received Connected, and core waits for
\* requests.
BuiltBridge ==
    /\ ui = "running"
    /\ newResult = Some("Ok")
    /\ handled = <<>>
    /\ requests = <<>>
    /\ inbox = <<>>
    /\ worker = "recv"
    /\ current = None
    /\ response = None
    /\ inflight = {}
    /\ nreq = 0
    /\ pushed = <<Msg("Connected", 0, "-")>>
    /\ consumed = <<Msg("Connected", 0, "-")>>
    /\ produced = <<>>
    /\ failed = {}

\* Application::new returned Ok: the bridge is built and the applets are new.
InitBuilt ==
    /\ BuiltBridge
    /\ InitCache
    /\ InitPipeline
    /\ InitApplets
    /\ InitHandle

\* The request r with the id of its place in the outbound channel.
Numbered(r, id) ==
    [id |-> id, kind |-> r.kind, dt |-> r.dt, ft |-> r.ft, args |-> r.args]

\* PipelineApp::show in one frame; a request of the frame goes through
\* Syncher::request or Syncher::run_pipeline.
Show ==
    \E input \in ShowInputs :
        LET r == show(state, input)
        IN /\ ui = "running"
           /\ r.request # None => nreq < MaxPipeRequests
           /\ state' = r.state
           /\ pcall' = PCalled("show", input)
           /\ IF r.request # None /\ WorkerAlive
              THEN /\ requests' =
                          RequestSend(requests, Numbered(r.request[1], nreq + 1))
                   /\ nreq' = nreq + 1
              ELSE UNCHANGED <<requests, nreq>>
           /\ UNCHANGED <<ui, newResult, handled, inbox, worker, current,
                          response, inflight, pushed, consumed, produced,
                          failed, cacheVars, appletVars, handleVars>>

\* PipelineApp::set_up with the records of a PipesSetUp message.
SetUp ==
    \E m \in MetaTriples :
        /\ state' = set_up(m[1], m[2], m[3])
        /\ pcall' = PCalled("set_up", m)
        /\ UNCHANGED <<bridgeVars, cacheVars, appletVars, handleVars>>

\* PipelineApp::set_status with the status of a PipelineStatus message.
SetStatus ==
    \E status \in PipelineStatuses :
        /\ state' = set_status(state, status)
        /\ pcall' = PCalled("set_status", status)
        /\ UNCHANGED <<bridgeVars, cacheVars, appletVars, handleVars>>

\* PipelineApp::interrupt
Interrupt ==
    /\ state' = interrupt(state)
    /\ pcall' = PCalled("interrupt", None)
    /\ UNCHANGED <<bridgeVars, cacheVars, appletVars, handleVars>>

\* PipelineApp::reset
Reset ==
    /\ state' = reset
    /\ pcall' = PCalled("reset", None)
    /\ UNCHANGED <<bridgeVars, cacheVars, appletVars, handleVars>>

NextPipeline ==
    \/ Show
    \/ SetUp
    \/ SetStatus
    \/ Interrupt
    \/ Reset

SpecPipeline == InitBuilt /\ [][NextPipeline]_vars

(***************************************************************************)
(* Properties of the pipeline state machine.                               *)
(***************************************************************************)
\* C35: action() returns the action that was pending, whichever of None,
\* Delete and Download it is, and leaves None pending; a call of action()
\* right after another, with no button pressed in between, returns None.
C35_ActionIsOneShot ==
    /\ [](call.op = "action" => action = <<"None">>)
    /\ [][call'.op = "action" =>
             /\ call'.ret = action
             /\ action' = <<"None">>
             /\ call.op = "action" => call'.ret = <<"None">>]_vars

\* A delete and a download were each returned once by action(), with None
\* left pending; this state follows the press of delete on item 1.
C35_Witness ==
    /\ call.op = "action"
    /\ call.ret = <<"Delete", Some(1)>>
    /\ action = <<"None">>
    /\ fetching

\* C13: interrupt called in stage Running or Invalid leaves Relaxed with the
\* three entries at their initial values; called in Relaxed, SettingUp or
\* SetUp it leaves the stage and everything it carries as they were.
C13_Interrupt ==
    pcall.name = "interrupt" =>
        IF pcall.pre.kind \in {"Running", "Invalid"}
        THEN state = Relaxed(<<>>, 0, 0)
        ELSE state = pcall.pre

\* interrupt was called on a run that had made progress.
C13_Witness ==
    /\ pcall.name = "interrupt"
    /\ pcall.pre.kind = "Running"
    /\ pcall.pre.info # DefaultInfo
    /\ state = DefaultStage

\* interrupt was called while the entries of a SetupPipes request were
\* being resolved.
InterruptKeepsEntries ==
    /\ pcall.name = "interrupt"
    /\ pcall.pre.kind = "SettingUp"
    /\ pcall.pre.raw # <<>>
    /\ state = pcall.pre

\* C14: after every completed show, set_up, set_status, interrupt or reset,
\* whatever the user did in the frame, the stored stage is not Invalid.
C14_NeverInvalid == state.kind \in {"Relaxed", "SettingUp", "SetUp", "Running"}

\* C15: a frame in which the user clicks run in stage SetUp enqueues a
\* RunPipeline request with the resolved records and ends in stage Running
\* with a default RunInfo.
C15_RunStartsRunning ==
    (pcall.name = "show" /\ pcall.pre.kind = "SetUp" /\ pcall.arg.click = "run")
        => /\ requests # <<>>
           /\ requests[Len(requests)].kind = "RunPipeline"
           /\ requests[Len(requests)].args = pcall.pre.metas
           /\ state = Running(DefaultInfo)

\* The enqueueing half of C15, which the code does.
RunEnqueues ==
    (pcall.name = "show" /\ pcall.pre.kind = "SetUp" /\ pcall.arg.click = "run")
        => /\ requests # <<>>
           /\ requests[Len(requests)].kind = "RunPipeline"
           /\ requests[Len(requests)].args = pcall.pre.metas

\* C16: once errored is true in a Running stage it is true as long as the
\* stage stays Running, and a status that is not an error keeps the stage
\* Running with errored true.
C16_ErroredSticky ==
    (pcall.pre.kind = "Running" /\ pcall.pre.info.errored) =>
        /\ state.kind = "Running" => state.info.errored
        /\ (pcall.name = "set_status" /\ pcall.arg.name # "Error") =>
               (state.kind = "Running" /\ state.info.errored)

\* A status that is not an error was handled after the run had errored.
C16_Witness ==
    /\ pcall.name = "set_status"
    /\ pcall.arg.name = "Finished"
    /\ pcall.pre.kind = "Running"
    /\ pcall.pre.info.errored
    /\ state.info.status.name = "Finished"
    /\ state.info.errored

(***************************************************************************)
(* Request::handle for SetupPipes and AddPar (syncher/request.rs), as a    *)
(* function of the request and of what the backend answers.                *)
(***************************************************************************)
\* Result<T, ARPAError>
Ok(v) == [ok |-> TRUE, value |-> v]
Err(e) == [ok |-> FALSE, value |-> e]

\* The texts of at most n characters.
RECURSIVE TextsUpTo(_)
TextsUpTo(n) ==
    IF n = 0
    THEN {<<>>}
    ELSE LET shorter == TextsUpTo(n - 1)
         IN shorter \cup {Append(t, c) : t \in shorter, c \in Chars}

\* str::trim_start, str::trim_end and str::trim: the white space at the ends
\* of the text is removed.
RECURSIVE trim_start(_)
trim_start(t) ==
    IF t # <<>> /\ Head(t) = " " THEN trim_start(Tail(t)) ELSE t

RECURSIVE trim_end(_)
trim_end(t) ==
    IF t # <<>> /\ t[Len(t)] = " "
    THEN trim_end(SubSeq(t, 1, Len(t) - 1))
    ELSE t

trim(t) == trim_end(trim_start(t))

\* str::parse::<i32> on a text without sign: the number, if the text is not
\* empty and all of its characters are digits.
RECURSIVE DigitsValue(_)
DigitsValue(t) ==
    IF t = <<>>
    THEN 0
    ELSE 10 * DigitsValue(SubSeq(t, 1, Len(t) - 1))
             + ((CHOOSE i \in 1..10 : Digits[i] = t[Len(t)]) - 1)

parse_i32(t) ==
    IF t # <<>> /\ \A i \in 1..Len(t) : \E d \in 1..10 : Digits[d] = t[i]
    THEN Some(DigitsValue(t))
    ELSE None

\* A call of the backend or of a resolver: the text or id it was given and
\* what it answered.
Call(fn, arg, ret) == [fn |-> fn, arg |-> arg, ret |-> ret]

\* What a function of request.rs leaves: its result and the calls it made.
Did(result, made) == [result |-> result, calls |-> made]

\* What the three resolvers of arpa::pipeline answer when called: the
\* record with id 1, or an error.
SetupOracles == [raw : {"Ok", "Err"}, par : {"Ok", "Err"}, template : {"Ok", "Err"}]

\* Faulty variant of set_up_pipes: the ephemeride text is tested for
\* emptiness before it is trimmed.
set_up_pipesUntrimmed(raw, ephemeride, template, oracle) ==
    LET rawCall == Call("parse_input_raw", trim(raw), oracle.raw)
        parCall == Call("parse_input_ephemeride", trim(ephemeride), oracle.par)
        templateCall == Call("parse_input_template", trim(template),
                             oracle.template)
        skipPar == ephemeride = <<>>
        upToPar == IF skipPar THEN <<rawCall>> ELSE <<rawCall, parCall>>
    IN CASE oracle.raw = "Err" -> Did(Err("raw not resolved"), <<rawCall>>)
         [] oracle.raw = "Ok" /\ ~skipPar /\ oracle.par = "Err" ->
                Did(Err("ephemeride not resolved"), upToPar)
         [] OTHER ->
                IF oracle.template = "Err"
                THEN Did(Err("template not resolved"),
                         Append(upToPar, templateCall))
                ELSE Did(Ok(<<1, IF skipPar THEN None ELSE Some(1), 1>>),
                         Append(upToPar, templateCall))

\* set_up_pipes: raw is resolved; the ephemeride is resolved unless its text
\* is empty once trimmed; the template is resolved.  The first error returns.
set_up_pipes(raw, ephemeride, template, oracle) ==
    LET rawCall == Call("parse_input_raw", trim(raw), oracle.raw)
        par_text == trim(ephemeride)
        parCall == Call("parse_input_ephemeride", par_text, oracle.par)
        templateCall == Call("parse_input_template", trim(template),
                             oracle.template)
        skipPar == par_text = <<>>
        upToPar == IF skipPar THEN <<rawCall>> ELSE <<rawCall, parCall>>
    IN CASE oracle.raw = "Err" -> Did(Err("raw not resolved"), <<rawCall>>)
         [] oracle.raw = "Ok" /\ ~skipPar /\ oracle.par = "Err" ->
                Did(Err("ephemeride not resolved"), upToPar)
         [] OTHER ->
                IF oracle.template = "Err"
                THEN Did(Err("template not resolved"),
                         Append(upToPar, templateCall))
                ELSE Did(Ok(<<1, IF skipPar THEN None ELSE Some(1), 1>>),
                         Append(upToPar, templateCall))

\* What the backend answers to the calls of add_par: assert_id and find (of
\* parse_pulsar), ParMeta::new, insert and update.  A pulsar found has id 1,
\* and so has the ephemeride inserted.
AddParOracles ==
    [assert_id : {"Ok", "DbError"}, find : {"Some", "None", "DbError"},
     new : {"Ok", "IoError"}, insert : {"Ok", "DbError"},
     update : {"Ok", "DbError"}]

\* Faulty variant of parse_pulsar: an alias that is not found resolves to
\* the id 0.
parse_pulsarDefault(pulsar, oracle) ==
    LET id == parse_i32(pulsar)
    IN IF id # None
       THEN Did(IF oracle.assert_id = "Ok" THEN Ok(id[1]) ELSE Err(oracle.assert_id),
                <<Call("assert_id", id[1], oracle.assert_id)>>)
       ELSE Did(CASE oracle.find = "Some" -> Ok(1)
                  [] oracle.find = "None" -> Ok(0)
                  [] OTHER -> Err(oracle.find),
                <<Call("find", pulsar, oracle.find)>>)

\* parse_pulsar: a text that parses as an i32 is an id, which must exist;
\* any other text is an alias, which must be found.
parse_pulsar(pulsar, oracle) ==
    LET id == parse_i32(pulsar)
    IN IF id # None
       THEN Did(IF oracle.assert_id = "Ok" THEN Ok(id[1]) ELSE Err(oracle.assert_id),
                <<Call("assert_id", id[1], oracle.assert_id)>>)
       ELSE Did(CASE oracle.find = "Some" -> Ok(1)
                  [] oracle.find = "None" -> Err("CantFind")
                  [] OTHER -> Err(oracle.find),
                <<Call("find", pulsar, oracle.find)>>)

\* add_par: the pulsar is resolved, the ParMeta is made and inserted, and
\* the pulsar's master ephemeride is updated if master.  The first error
\* returns.
add_par(pulsar, master, oracle) ==
    LET pid == parse_pulsar(pulsar, oracle)
        inserted == Append(pid.calls,
                           Call("insert", pid.result.value, oracle.insert))
        updated == Append(inserted,
                          Call("update", pid.result.value, oracle.update))
    IN CASE ~pid.result.ok -> Did(pid.result, pid.calls)
         [] pid.result.ok /\ oracle.new # "Ok" -> Did(Err(oracle.new), pid.calls)
         [] pid.result.ok /\ oracle.new = "Ok" /\ oracle.insert # "Ok" ->
                Did(Err(oracle.insert), inserted)
         [] OTHER ->
                IF ~master
                THEN Did(Ok(1), inserted)
                ELSE IF oracle.update = "Ok"
                     THEN Did(Ok(1), updated)
                     ELSE Did(Err(oracle.update), updated)

\* The one item the backend holds of each kind.
StoredItem == [id |-> 1, val |-> 0]

\* What the backend answers to a Download: an error, for FetchType::All
\* the stored items and for FetchType::Id the stored item.
DownloadOracles == [get : {"Ok", "DbError"}, items : {<<>>, <<StoredItem>>}]

\* The Download arms of Request::handle: get_all and get (get_pars, get_par,
\* get_toas and get_toa fail when one of their calls does).
download(r, oracle) ==
    IF r.ft = "All"
    THEN Did(IF oracle.get = "Ok" THEN Ok(oracle.items) ELSE Err(oracle.get),
             <<Call("get_all", r.dt, oracle.get)>>)
    ELSE Did(IF oracle.get = "Ok" THEN Ok(StoredItem) ELSE Err(oracle.get),
             <<Call("get", r.dt, oracle.get)>>)

\* What pipeline::cook returns.
CookOracles == [cook : {"Ok", "PipelineError"}]

\* The RunPipeline arm of Request::handle.
cook(r, oracle) ==
    Did(IF oracle.cook = "Ok" THEN Ok(None) ELSE Err(oracle.cook),
        <<Call("cook", r.args, oracle.cook)>>)

\* The DeleteItem arm of Request::handle: archivist.delete of the table of
\* the data type, with the id of the request.
delete_item(r, oracle) ==
    Did(IF oracle.delete = "Ok" THEN Ok(r.args) ELSE Err(oracle.delete),
        <<Call("delete", <<r.dt, r.args>>, oracle.delete)>>)

\* The Commit and Rollback arms of Request::handle.
end_transaction(r, oracle) ==
    Did(IF oracle.done = "Ok" THEN Ok(None) ELSE Err(oracle.done),
        <<Call(IF r.kind = "Commit"
               THEN "commit_transaction"
               ELSE "rollback_transaction", None, oracle.done)>>)

\* The arms of Request::handle for Commit, Rollback, DeleteItem, Download,
\* AddPar, SetupPipes and RunPipeline, and response.unwrap_or_else(Message::Error): the
\* message, with the calls made.
HandleCalls(r, oracle) ==
    LET out == CASE r.kind = "SetupPipes" ->
                        set_up_pipes(r.args[1], r.args[2], r.args[3], oracle)
                 [] r.kind = "AddPar" -> add_par(r.args[1], r.args[2], oracle)
                 [] r.kind = "Download" -> download(r, oracle)
                 [] r.kind = "RunPipeline" -> cook(r, oracle)
                 [] r.kind = "DeleteItem" -> delete_item(r, oracle)
                 [] r.kind \in {"Commit", "Rollback"} ->
                        end_transaction(r, oracle)
    IN [message |->
            CASE ~out.result.ok -> Msg("Error", r.id, out.result.value)
              [] out.result.ok /\ r.kind = "AddPar" ->
                     Msg(SuccessKind(r), r.id, <<"Ephemeride", out.result.value>>)
              [] out.result.ok /\ r.kind = "DeleteItem" ->
                     Msg(SuccessKind(r), r.id, <<r.dt, out.result.value>>)
              [] OTHER -> Msg(SuccessKind(r), r.id, out.result.value),
        calls |-> out.calls]

\* The text of the pulsar field of the ephemeride form: an id or an alias.
PulsarTexts == {<<"7">>, <<"J">>}

\* The requests given to Request::handle, each with the backend's answers.
Jobs ==
    {[request |-> Numbered(PipeReq("SetupPipes", <<a, b, c>>), 1), oracle |-> o] :
         a \in TextsUpTo(2), b \in TextsUpTo(2), c \in TextsUpTo(2),
         o \in SetupOracles}
      \cup
    {[request |-> Numbered(PipeReq("AddPar", <<a, m>>), 1), oracle |-> o] :
         a \in PulsarTexts, m \in BOOLEAN, o \in AddParOracles}

\* The caches an answer can meet: empty as constructed, or holding the
\* stored item, selected, with a download under way.
JobApplets == {Applet(<<>>, None, FALSE), Applet(<<StoredItem>>, Some(0), TRUE)}

InitJob ==
    /\ BuiltBridge
    /\ InitCache
    /\ InitPipeline
    /\ pulsars \in JobApplets
    /\ ephemerides \in JobApplets
    /\ toas \in JobApplets
    /\ tab = "Ephemerides"
    /\ has_live_transaction = FALSE
    /\ issued = <<>>
    /\ \E j \in Jobs :
           job = Some([request |-> j.request, oracle |-> j.oracle,
                       app |-> [pulsars |-> pulsars, ephemerides |-> ephemerides,
                                toas |-> toas, pipeline |-> state]])
    /\ answer = None

\* The message of handling the job, not yet taken from the inbox.
Answer(j) ==
    LET h == HandleCalls(j.request, j.oracle)
    IN [message |-> h.message, calls |-> h.calls, handled |-> FALSE]

\* core handles a SetupPipes request.
HandleSetupPipes ==
    /\ answer = None
    /\ job[1].request.kind = "SetupPipes"
    /\ answer' = Some(Answer(job[1]))
    /\ UNCHANGED <<bridgeVars, cacheVars, pipeVars, appletVars, job>>

\* core handles an AddPar request.
HandleAddPar ==
    /\ answer = None
    /\ job[1].request.kind = "AddPar"
    /\ answer' = Some(Answer(job[1]))
    /\ UNCHANGED <<bridgeVars, cacheVars, pipeVars, appletVars, job>>

\* The calls of fn among made.
CallsOf(made, fn) == {i \in 1..Len(made) : made[i].fn = fn}

\* C19: a SetupPipes request whose ephemeride text is empty once trimmed is
\* handled without a call of the ephemeride resolver; it is answered by
\* PipesSetUp with ephemeride None when raw and template resolve, and by the
\* error of raw or of template otherwise.
C19_EmptyEphemerideIsNone ==
    (/\ answer # None
     /\ job[1].request.kind = "SetupPipes"
     /\ trim(job[1].request.args[2]) = <<>>)
        => /\ CallsOf(answer[1].calls, "parse_input_ephemeride") = {}
           /\ IF job[1].oracle.raw = "Ok" /\ job[1].oracle.template = "Ok"
              THEN /\ answer[1].message.kind = "PipesSetUp"
                   /\ answer[1].message.arg[2] = None
              ELSE /\ answer[1].message.kind = "Error"
                   /\ answer[1].message.arg # "ephemeride not resolved"

\* An ephemeride text of one blank, which the resolver would have refused,
\* was answered by PipesSetUp with ephemeride None.
C19_Witness ==
    /\ answer # None
    /\ job[1].request.kind = "SetupPipes"
    /\ job[1].request.args[2] = <<" ">>
    /\ job[1].oracle.par = "Err"
    /\ answer[1].message.kind = "PipesSetUp"
    /\ answer[1].message.arg[2] = None

(***************************************************************************)
(* The application: Application::update with handle_message and the        *)
(* applets' show (app.rs, app/pulsars.rs, app/ephemerides.rs, app/toas.rs), *)
(* over the bridge.                                                        *)
(***************************************************************************)
\* Requests the user issues in one run of SpecApp.
MaxAppRequests == 3

\* Downloader::set, add, deselect and stop_fetching on an applet's cache.
set(a, items) == [a EXCEPT !.data = items, !.fetching = FALSE]

add(a, item) ==
    LET r == AddResult(a.data, item)
    IN [data |-> r.items,
        selected |-> SelectResult(r.items, a.selected, r.index),
        fetching |-> FALSE]

deselect(a) == [a EXCEPT !.selected = None]

stop_fetching(a) == [a EXCEPT !.fetching = FALSE]

\* Downloader::selected_id indexes data with the selection: it panics when
\* the selection is out of range.
selected_id_panics(a) == a.selected # None /\ a.selected[1] >= Len(a.data)

selected_id(a) ==
    IF a.selected = None THEN None ELSE Some(a.data[a.selected[1] + 1].id)

\* The applets handle_message works on.
AppState ==
    [pulsars |-> pulsars, ephemerides |-> ephemerides, toas |-> toas,
     pipeline |-> state, has_live_transaction |-> has_live_transaction]

\* Application::error: the status line is written and the pipeline is
\* interrupted.
error(app) == [app EXCEPT !.pipeline = interrupt(@)]

\* Application::reset_part
reset_part(app, dt) ==
    CASE dt = "Pulsar" -> [app EXCEPT !.pulsars = deselect(@)]
      [] dt = "Ephemeride" -> [app EXCEPT !.ephemerides = deselect(@)]
      [] dt = "Toa" -> [app EXCEPT !.toas = deselect(@)]

\* Application::handle_message.  reset_ui of PulsarsApp and of EphemerideApp
\* is stop_fetching; TOAsApp has no reset_ui and the Error arm calls
\* nothing of it.
handle_message(app, m) ==
    CASE m.kind = "Error" ->
             [error(app) EXCEPT !.pulsars = stop_fetching(@),
                                !.ephemerides = stop_fetching(@),
                                !.pipeline = reset]
      [] m.kind \in {"CommitSuccess", "RollbackSuccess"} ->
             [app EXCEPT !.has_live_transaction = FALSE]
      [] m.kind \in {"ItemAdded", "ItemDeleted"} ->
             [reset_part(app, m.arg[1]) EXCEPT !.has_live_transaction = TRUE]
      [] m.kind = "ItemUpdated" -> [app EXCEPT !.has_live_transaction = TRUE]
      [] m.kind = "Pulsars" -> [app EXCEPT !.pulsars = set(@, m.arg)]
      [] m.kind = "SinglePulsar" -> [app EXCEPT !.pulsars = add(@, m.arg)]
      [] m.kind = "Ephemerides" -> [app EXCEPT !.ephemerides = set(@, m.arg)]
      [] m.kind = "SingleEphemeride" ->
             [app EXCEPT !.ephemerides = add(@, m.arg)]
      [] m.kind = "TOAs" -> [app EXCEPT !.toas = set(@, m.arg)]
      [] m.kind = "SingleTOA" -> [app EXCEPT !.toas = add(@, m.arg)]
      [] m.kind = "PipesSetUp" ->
             [app EXCEPT !.pipeline = set_up(m.arg[1], m.arg[2], m.arg[3])]
      [] m.kind = "PipelineStatus" ->
             LET shown == IF m.arg.name = "Error" THEN error(app) ELSE app
             IN [shown EXCEPT !.pipeline = set_status(@, m.arg)]
      [] OTHER -> app

\* Application::update takes the answer of the job from the inbox and
\* handles it.
HandleAnswer ==
    /\ answer # None
    /\ ~answer[1].handled
    /\ LET after == handle_message(AppState, answer[1].message)
       IN /\ pulsars' = after.pulsars
          /\ ephemerides' = after.ephemerides
          /\ toas' = after.toas
          /\ state' = after.pipeline
          /\ has_live_transaction' = after.has_live_transaction
    /\ answer' = Some([answer[1] EXCEPT !.handled = TRUE])
    /\ UNCHANGED <<bridgeVars, cacheVars, pcall, tab, issued, job>>

NextHandle ==
    \/ HandleSetupPipes
    \/ HandleAddPar
    \/ HandleAnswer

SpecHandle == InitJob /\ [][NextHandle]_vars

\* C20: an AddPar request whose pulsar text is no integer and is the alias
\* of no pulsar is answered by Error(CantFind), so by no ItemAdded; nothing
\* is inserted or updated on the backend; and handling the Error leaves the
\* items of each cache as they were.
C20_UnknownAliasAddsNothing ==
    (/\ answer # None
     /\ job[1].request.kind = "AddPar"
     /\ parse_i32(job[1].request.args[1]) = None
     /\ job[1].oracle.find = "None")
        => /\ answer[1].message.kind = "Error"
           /\ answer[1].message.arg = "CantFind"
           /\ CallsOf(answer[1].calls, "insert") = {}
           /\ CallsOf(answer[1].calls, "update") = {}
           /\ answer[1].handled =>
                  /\ pulsars.data = job[1].app.pulsars.data
                  /\ ephemerides.data = job[1].app.ephemerides.data
                  /\ toas.data = job[1].app.toas.data

\* The Error of an unknown alias was handled while the ephemeride cache
\* held an item and had a download under way, and the insert would have
\* succeeded.
C20_Witness ==
    /\ answer # None
    /\ answer[1].handled
    /\ job[1].request.kind = "AddPar"
    /\ job[1].request.args = <<<<"J">>, TRUE>>
    /\ job[1].oracle.find = "None"
    /\ job[1].oracle.insert = "Ok"
    /\ job[1].app.ephemerides.data = <<StoredItem>>
    /\ ephemerides.data = <<StoredItem>>
    /\ ~ephemerides.fetching

\* The backend holds a mutation of the calls made: an insert, an update or
\* a delete that succeeded.  (No commit or rollback is among the calls of a
\* job of SpecHandle, and the backend held none before it.)
Mutated(made) ==
    \E i \in 1..Len(made) :
        made[i].fn \in {"insert", "update", "delete"} /\ made[i].ret = "Ok"

\* C37: once the answer of the one request was handled, so that the inbox
\* is empty and nothing is outstanding, has_live_transaction is set if and
\* only if the backend holds a mutation made since the last commit or
\* rollback.
C37_FlagTracksMutations ==
    (answer # None /\ answer[1].handled) =>
        (has_live_transaction <=> Mutated(answer[1].calls))

\* What the code does of C37: the flag is set if and only if the answer is
\* ItemAdded, ItemDeleted or ItemUpdated, and an Error leaves it as it was.
FlagFollowsAnswer ==
    (answer # None /\ answer[1].handled) =>
        (has_live_transaction <=>
            answer[1].message.kind \in {"ItemAdded", "ItemDeleted", "ItemUpdated"})

\* What the user does in one frame: nothing, a click on a tab of the menu
\* bar, on the download button of the applet shown (ft is the fetch type
\* chosen in its menu, All in this specification), on the insert button of
\* the ephemeride form (with the form's pulsar text, an alias in this
\* specification, and its master box, ticked), or something in the
\* pipeline panel (nothing in this specification).
Frame(kind, to, ft, pulsar, master, panel) ==
    [kind |-> kind, tab |-> to, ft |-> ft, pulsar |-> pulsar,
     master |-> master, panel |-> panel]

\* The tabs the user clicks on in this specification: those with a
\* resource cache.
Tabs == {"Pulsars", "Ephemerides", "TOAs"}

FrameInputs ==
    {Frame("none", "-", "-", <<>>, FALSE, Input("none", <<>>, 0))}
      \cup {Frame("tab", t, "-", <<>>, FALSE, Input("none", <<>>, 0)) :
                t \in Tabs}
      \cup {Frame("download", "-", "All", <<>>, FALSE, Input("none", <<>>, 0))}
      \cup {Frame("insert", "-", "-", <<"J">>, TRUE, Input("none", <<>>, 0))}

\* A request with the fields of every variant.
AppReq(kind, dt, ft, args) == [kind |-> kind, dt |-> dt, ft |-> ft, args |-> args]

\* Faulty variant of download_menu: the button is there while fetching.
download_menuAlways(a, dt, in) ==
    IF in.kind = "download"
    THEN [applet |-> [a EXCEPT !.fetching = TRUE],
          request |-> Some(AppReq("Download", dt, in.ft, None))]
    ELSE [applet |-> a, request |-> None]

\* action_bar with download_menu, and the Download arm of the applet's
\* match on action(): while fetching a spinner stands for the button; a
\* click sets fetching and the action, which show turns into the request.
\* (EphemerideApp::show names its requests DownloadAllEphemerides and
\* DownloadEphemerideById, which Request does not have; they are read as
\* Download(Ephemeride, All) and Download(Ephemeride, Id).)
download_menu(a, dt, in) ==
    IF in.kind = "download" /\ ~a.fetching
    THEN [applet |-> [a EXCEPT !.fetching = TRUE],
          request |-> Some(AppReq("Download", dt, in.ft, None))]
    ELSE [applet |-> a, request |-> None]

\* Faulty variant of delete_button: the button is enabled with nothing
\* selected, and show sends the id 0 for Delete(None).
delete_buttonAlways(a, dt, in) ==
    IF in.kind = "delete"
    THEN Some(AppReq("DeleteItem", dt, "-",
                     IF a.selected = None THEN 0 ELSE selected_id(a)[1]))
    ELSE None

\* The delete button of action_bar and the Delete arm of the applet's match
\* on action(): the button is enabled while an item is selected; a click
\* stores Delete(selected_id()), and show sends DeleteItem(dt, id) for
\* Delete(Some(id)) and only pushes a warning for Delete(None).  dt is the
\* data type the applet's show names.
delete_button(a, dt, in) ==
    IF in.kind = "delete" /\ a.selected # None /\ selected_id(a) # None
    THEN Some(AppReq("DeleteItem", dt, "-", selected_id(a)[1]))
    ELSE None

\* par_data_controls of the ephemeride form: insert sends AddPar.
par_data_controls(in) ==
    IF in.kind = "insert"
    THEN Some(AppReq("AddPar", "-", "-", <<in.pulsar, in.master>>))
    ELSE None

\* The applet of tab t is shown: the applets after the frame and the
\* request sent in it.
show_tab(app, t, in) ==
    CASE t = "Pulsars" ->
             LET d == download_menu(app.pulsars, "Pulsar", in)
             IN [app |-> [app EXCEPT !.pulsars = d.applet],
                 request |-> IF d.request # None
                             THEN d.request
                             ELSE delete_button(app.pulsars, "Pulsar", in)]
      [] t = "Ephemerides" ->
             LET d == download_menu(app.ephemerides, "Ephemeride", in)
             IN [app |-> [app EXCEPT !.ephemerides = d.applet],
                 request |-> IF d.request # None
                             THEN d.request
                             ELSE IF in.kind = "delete"
                                  THEN delete_button(app.ephemerides, "Toa", in)
                                  ELSE par_data_controls(in)]
      [] t = "TOAs" ->
             LET d == download_menu(app.toas, "Toa", in)
             IN [app |-> [app EXCEPT !.toas = d.applet],
                 request |-> IF d.request # None
                             THEN d.request
                             ELSE delete_button(app.toas, "Toa", in)]
      [] t = "Pipeline" ->
             LET r == show(app.pipeline,
                           IF in.kind = "pipeline"
                           THEN in.panel
                           ELSE Input("none", <<>>, 0))
             IN [app |-> [app EXCEPT !.pipeline = r.state],
                 request |-> IF r.request = None
                             THEN None
                             ELSE Some(AppReq(r.request[1].kind, "-", "-",
                                              r.request[1].args))]

\* argument_entry asks the ephemeride applet for its selected id in every
\* frame of a Relaxed or SettingUp panel, and a click on the delete button
\* of a cache applet asks the applet's cache for it.
show_panics(app, t, in) ==
    \/ /\ t = "Pipeline"
       /\ app.pipeline.kind \in {"Relaxed", "SettingUp"}
       /\ selected_id_panics(app.ephemerides)
    \/ /\ in.kind = "delete"
       /\ \/ t = "Pulsars" /\ selected_id_panics(app.pulsars)
          \/ t = "Ephemerides" /\ selected_id_panics(app.ephemerides)
          \/ t = "TOAs" /\ selected_id_panics(app.toas)

\* sql_buttons of the menu bar: the commit and rollback buttons are enabled
\* while has_live_transaction is set; a click sends Commit or Rollback.
sql_buttons(app, in) ==
    IF in.kind \in {"commit", "rollback"} /\ app.has_live_transaction
    THEN Some(AppReq(IF in.kind = "commit" THEN "Commit" ELSE "Rollback",
                     "-", "-", None))
    ELSE None

\* Application::update, one frame: at most one message is taken from the
\* inbox and handled, the menu bar sets the tab and sends what its
\* transaction buttons ask for, and the applet of the tab is shown.  A
\* panic ends the application.  The histories of the bridge
\* specification (handled, pushed, inflight, failed) are not kept here.
update(in, max) ==
    LET got == CheckInbox(inbox)
        app1 == IF got.message = None
                THEN AppState
                ELSE handle_message(AppState, got.message[1])
        tab1 == IF in.kind = "tab" THEN in.tab ELSE tab
        sql == sql_buttons(app1, in)
        panics == show_panics(app1, tab1, in)
        r == show_tab(app1, tab1, in)
        sent == IF sql # None THEN sql ELSE IF panics THEN None ELSE r.request
    IN /\ ui = "running"
       /\ sent # None => nreq < max
       /\ inbox' = got.rest
       /\ tab' = tab1
       /\ has_live_transaction' = app1.has_live_transaction
       /\ IF panics
          THEN /\ ui' = "panicked"
               /\ pulsars' = app1.pulsars
               /\ ephemerides' = app1.ephemerides
               /\ toas' = app1.toas
               /\ state' = Invalid
          ELSE /\ ui' = ui
               /\ pulsars' = r.app.pulsars
               /\ ephemerides' = r.app.ephemerides
               /\ toas' = r.app.toas
               /\ state' = r.app.pipeline
       /\ IF sent # None /\ WorkerAlive
          THEN /\ requests' =
                      RequestSend(requests, Numbered(sent[1], nreq + 1))
               /\ issued' = Append(issued, Numbered(sent[1], nreq + 1))
               /\ nreq' = nreq + 1
          ELSE UNCHANGED <<requests, nreq, issued>>
       /\ UNCHANGED <<newResult, handled, worker, current, response,
                      inflight, pushed, consumed, produced, failed,
                      cacheVars, pcall, handleVars>>

\* A frame of the application with the cache applets.
AppUpdate == \E in \in FrameInputs : update(in, MaxAppRequests)

\* What the backend may answer while r is handled.
Oracles(r) ==
    CASE r.kind = "SetupPipes" -> SetupOracles
      [] r.kind = "AddPar" -> AddParOracles
      [] r.kind = "Download" -> DownloadOracles
      [] r.kind = "RunPipeline" -> CookOracles
      [] r.kind = "DeleteItem" -> [delete : {"Ok", "DbError"}]
      [] r.kind \in {"Commit", "Rollback"} -> [done : {"Ok", "DbError"}]

\* core: receiver.recv().await returned a request; its handling starts.
AppWorkerRecv ==
    /\ WorkerReady
    /\ requests # <<>>
    /\ current' = Some(Head(requests))
    /\ requests' = Tail(requests)
    /\ worker' = "handling"
    /\ UNCHANGED <<ui, newResult, handled, inbox, response, inflight, nreq,
                   pushed, consumed, produced, failed, cacheVars, appVars>>

\* core: request.handle(&mut archivist).await returned and its message is
\* sent; the loop goes round.
AppWorkerRespond ==
    /\ worker = "handling"
    /\ current # None
    /\ \E message \in {HandleCalls(current[1], oracle).message :
                           oracle \in Oracles(current[1])} :
           /\ inbox' = Send(inbox, message)
           /\ worker' = AfterSend(message)
    /\ current' = None
    /\ UNCHANGED <<ui, newResult, handled, requests, response, inflight,
                   nreq, pushed, consumed, produced, failed, cacheVars,
                   pipeVars, appletVars, handleVars>>

NextApp ==
    \/ AppUpdate
    \/ AppWorkerRecv
    \/ AppWorkerRespond

SpecApp == InitBuilt /\ [][NextApp]_vars

(***************************************************************************)
(* Properties of the application.                                          *)
(***************************************************************************)
\* The cache of a resource kind.
Cache(dt) ==
    CASE dt = "Pulsar" -> pulsars
      [] dt = "Ephemeride" -> ephemerides
      [] dt = "Toa" -> toas

\* The request id is in the outbound channel, or being handled, or its
\* answer is in the inbox: the answer was not handled yet.
Pending(id) ==
    \/ \E i \in 1..Len(requests) : requests[i].id = id
    \/ current # None /\ current[1].id = id
    \/ \E i \in 1..Len(inbox) : inbox[i].req = id /\ IsTerminal(inbox[i])

\* The Download requests for the cache of dt that are outstanding.
Outstanding(dt) ==
    {id \in 1..Len(issued) :
        issued[id].kind = "Download" /\ issued[id].dt = dt /\ Pending(id)}

\* The next message update will handle is an Error.
ErrorNext == ui = "running" /\ inbox # <<>> /\ Head(inbox).kind = "Error"

\* C17: handling one Message::Error clears the fetch flag of the pulsar, the
\* ephemeride and the TOA cache, and a Running pipeline is Relaxed after it.
C17_ErrorClearsEveryFlag ==
    ErrorNext =>
        LET after == handle_message(AppState, Head(inbox))
        IN /\ ~after.pulsars.fetching
           /\ ~after.ephemerides.fetching
           /\ ~after.toas.fetching
           /\ state.kind = "Running" => after.pipeline.kind = "Relaxed"

\* What the code does of C17: the flags of the pulsar and the ephemeride
\* cache are cleared and the pipeline is Relaxed.
ErrorClearsPulsarsAndEphemerides ==
    ErrorNext =>
        LET after == handle_message(AppState, Head(inbox))
        IN /\ ~after.pulsars.fetching
           /\ ~after.ephemerides.fetching
           /\ after.pipeline = DefaultStage

\* C18 as claimed: for each cache at most one Download is outstanding at any
\* time.
C18_OneOutstandingDownload ==
    \A dt \in DataTypes : Cardinality(Outstanding(dt)) <= 1

\* The messages whose handling is to clear the fetch flag of the cache of
\* dt: the payloads of the cache (set, add) and any Error (reset_ui).
ClearingKinds(dt) ==
    CASE dt = "Pulsar" -> {"Pulsars", "SinglePulsar", "Error"}
      [] dt = "Ephemeride" -> {"Ephemerides", "SingleEphemeride", "Error"}
      [] dt = "Toa" -> {"TOAs", "SingleTOA", "Error"}

\* A Download for the cache of dt is enqueued in this step.
Enqueues(dt) ==
    /\ issued' # issued
    /\ issued'[Len(issued')].kind = "Download"
    /\ issued'[Len(issued')].dt = dt

\* C18, amended: a frame that enqueues a Download for a cache leaves the
\* fetch flag of the cache set, and while the flag is set a Download for the
\* cache is enqueued only by a frame that first handles a message clearing
\* the flag: a payload of the cache or any Error, also the Error answering
\* another request, so that two Downloads of one cache can be outstanding.
C18_DownloadAfterFlagCleared ==
    [][\A dt \in DataTypes :
          Enqueues(dt) =>
              /\ Cache(dt)'.fetching
              /\ Cache(dt).fetching =>
                     (inbox # <<>> /\ Head(inbox).kind \in ClearingKinds(dt))]_vars

\* A second Download for the ephemeride cache was enqueued while the first
\* was outstanding.
C18_Witness ==
    /\ Cardinality(Outstanding("Ephemeride")) = 2
    /\ ephemerides.fetching

\* The next message update will handle answers a Download for the cache
\* of dt.
AnswersDownload(dt) ==
    /\ ui = "running"
    /\ inbox # <<>>
    /\ Head(inbox).req \in 1..Len(issued)
    /\ issued[Head(inbox).req].kind = "Download"
    /\ issued[Head(inbox).req].dt = dt

\* C38: once the answer of a Download, a payload or an Error, is handled,
\* the fetch flag of the cache the download was triggered for is false, for
\* the pulsar, the ephemeride and the TOA cache.
C38_AnswerReleasesGuard ==
    LET after == handle_message(AppState, Head(inbox))
    IN /\ AnswersDownload("Pulsar") => ~after.pulsars.fetching
       /\ AnswersDownload("Ephemeride") => ~after.ephemerides.fetching
       /\ AnswersDownload("Toa") => ~after.toas.fetching

\* What the code does of C38: the answer releases the guard of the pulsar
\* and of the ephemeride cache, and a payload that of the TOA cache.
AnswerReleasesGuardButForToaError ==
    LET after == handle_message(AppState, Head(inbox))
    IN /\ AnswersDownload("Pulsar") => ~after.pulsars.fetching
       /\ AnswersDownload("Ephemeride") => ~after.ephemerides.fetching
       /\ (AnswersDownload("Toa") /\ Head(inbox).kind # "Error") =>
              ~after.toas.fetching
       /\ (AnswersDownload("Toa") /\ Head(inbox).kind = "Error") =>
              after.toas.fetching

(***************************************************************************)
(* The application with the pipeline panel: Application::update over the   *)
(* bridge, with the pulsar tab and the pipeline tab, the progress events   *)
(* of a run, and a worker task that can end.                               *)
(***************************************************************************)
MaxPanelRequests == 3
MaxPanelEvents == 2

\* What the user does in one frame: nothing, a click on the pulsar or the
\* pipeline tab, on the download button, or something in the panel (an
\* edit of the raw text or of the template, a click on a button).
PanelFrames ==
    {Frame("none", "-", "-", <<>>, FALSE, Input("none", <<>>, 0))}
      \cup {Frame("tab", t, "-", <<>>, FALSE, Input("none", <<>>, 0)) :
                t \in {"Pulsars", "Pipeline"}}
      \cup {Frame("download", "-", "All", <<>>, FALSE, Input("none", <<>>, 0))}
      \cup {Frame("pipeline", "-", "-", <<>>, FALSE, p) :
                p \in {Input("raw", <<"7">>, 0), Input("template", <<>>, 1)}
                        \cup {Input(c, <<>>, 0) :
                                  c \in {"write", "clear", "run", "restart"}}}

\* A frame of the application with the pipeline panel.
PanelUpdate == \E in \in PanelFrames : update(in, MaxPanelRequests)

\* cook invokes the callback of run_pipeline while core awaits handle: a
\* PipelineStatus (Copying or Error in this specification) is sent on the
\* inbound channel.
PanelWorkerCallback ==
    /\ worker = "handling"
    /\ current # None
    /\ current[1].kind = "RunPipeline"
    /\ Len(produced) < MaxPanelEvents
    /\ \E s \in {Status("Copying", 0), Status("Error", 0)} :
           /\ inbox' = CallbackSend(inbox, current[1].id, s)
           /\ produced' = Append(produced, [req |-> current[1].id, status |-> s])
    /\ UNCHANGED <<ui, newResult, handled, requests, worker, current,
                   response, inflight, nreq, pushed, consumed, failed,
                   cacheVars, appVars>>

\* The backend call panics inside request.handle(..).await: the task of
\* core ends without a message and its receiver of requests is dropped.
PanelWorkerPanic ==
    /\ worker = "handling"
    /\ current # None
    /\ worker' = "stopped"
    /\ current' = None
    /\ UNCHANGED <<ui, newResult, handled, requests, inbox, response,
                   inflight, nreq, pushed, consumed, produced, failed,
                   cacheVars, appVars>>

NextPanel ==
    \/ PanelUpdate
    \/ AppWorkerRecv
    \/ AppWorkerRespond
    \/ PanelWorkerCallback
    \/ PanelWorkerPanic

SpecPanel == InitBuilt /\ [][NextPanel]_vars

(***************************************************************************)
(* Properties of the application with the pipeline panel.                  *)
(***************************************************************************)
\* update will handle a message in its next frame.
MessageNext == ui = "running" /\ inbox # <<>>

\* The applets once the next frame's message, if any, is handled.
AfterMessage ==
    IF inbox = <<>> THEN AppState ELSE handle_message(AppState, Head(inbox))

\* The request a message answers is one of the pipeline panel.
OfPipeline(m) ==
    /\ m.req \in 1..Len(issued)
    /\ issued[m.req].kind \in {"SetupPipes", "RunPipeline"}

\* C21: an Error answering a request that is not of the pipeline, handled
\* while the panel is Relaxed, SettingUp or SetUp, leaves the stage and the
\* entries or records it holds as they were.
C21_UnrelatedErrorKeepsPipeline ==
    (/\ ErrorNext
     /\ ~OfPipeline(Head(inbox))
     /\ state.kind \in {"Relaxed", "SettingUp", "SetUp"})
        => AfterMessage.pipeline = state

\* C22: a PipelineStatus, PipelineFinished or PipesSetUp message handled
\* while the panel is Relaxed (the panel was reset after the message's
\* request was made) leaves the panel Relaxed with its entries.
C22_OrphanIgnored ==
    (/\ MessageNext
     /\ Head(inbox).kind \in {"PipelineStatus", "PipelineFinished", "PipesSetUp"}
     /\ state.kind = "Relaxed")
        => AfterMessage.pipeline = state

\* What the code does of C22: an orphaned PipelineFinished is ignored.
OrphanFinishedIgnored ==
    (MessageNext /\ Head(inbox).kind = "PipelineFinished") =>
        AfterMessage.pipeline = state

\* C23: a frame whose panel is SettingUp or Running once the frame's
\* message is handled enqueues no request.
C23_NoRequestWhileBusy ==
    [][(ui = "running" /\ AfterMessage.pipeline.kind \in {"SettingUp", "Running"})
           => issued' = issued]_vars

\* What the code does of C23: a frame that shows the panel while it is
\* SettingUp or Running enqueues no request.
NoRequestFromBusyPanel ==
    [][(/\ ui = "running"
        /\ AfterMessage.pipeline.kind \in {"SettingUp", "Running"}
        /\ tab' = "Pipeline")
           => issued' = issued]_vars

\* The step is a frame that handles no message and makes a request while
\* the worker has terminated.
RequestsOfDeadWorker ==
    /\ ui = "running"
    /\ worker = "stopped"
    /\ inbox = <<>>
    /\ \E in \in PanelFrames :
           LET tab1 == IF in.kind = "tab" THEN in.tab ELSE tab
               r == show_tab(AppState, tab1, in)
           IN /\ r.request # None
              /\ tab' = tab1
              /\ pulsars' = r.app.pulsars
              /\ state' = r.app.pipeline

C26_SettingUpLeavesByMessage ==
    /\ []((MessageNext /\ state.kind = "SettingUp") =>
             LET m == Head(inbox)
                 after == AfterMessage.pipeline
             IN /\ m.kind = "PipesSetUp" =>
                       (after.kind = "SetUp" /\ after.metas = m.arg)
                /\ m.kind = "Error" => after.kind = "Relaxed")
    /\ []((ui = "running" /\ state.kind = "SettingUp") =>
             \A input \in ShowInputs :
                 /\ show(state, input).state.kind = "SettingUp"
                 /\ show(state, input).request = None)
    /\ [][(state.kind = "SettingUp" /\ inbox = <<>>) =>
             state'.kind = "SettingUp"]_vars

\* The panel is SettingUp and the PipesSetUp answering its request, which
\* carries an ephemeride, is the next message.
C26_Witness ==
    /\ MessageNext
    /\ state.kind = "SettingUp"
    /\ Head(inbox).kind = "PipesSetUp"
    /\ Head(inbox).arg[2] # None
    /\ AfterMessage.pipeline = SetUpStage(1, Some(1), 1)

(***************************************************************************)
(* Further properties of the pipeline state machine.                       *)
(***************************************************************************)
\* The step is a frame of show on a Relaxed panel in which the user clicks
\* the enabled write button.
Submits ==
    /\ pcall'.name = "show"
    /\ state.kind = "Relaxed"
    /\ pcall'.arg.click = "write"
    /\ state.raw # <<>>
    /\ state.template > 0

\* C25: in the Relaxed stage, which is the initial one with empty entries, a
\* submit enqueues exactly one request, SetupPipes carrying the three
\* entries, and leaves SettingUp with the same three entries; a frame
\* without submit or clear leaves Relaxed with the entries as edited, and
\* enqueues nothing.
C25_SubmitSetsUp ==
    [][(pcall'.name = "show" /\ state.kind = "Relaxed") =>
          LET in == pcall'.arg
          IN CASE Submits ->
                      /\ state' = SettingUp(state.raw, state.ephemeride,
                                            state.template)
                      /\ Len(requests') = Len(requests) + 1
                      /\ SubSeq(requests', 1, Len(requests)) = requests
                      /\ LET sent == requests'[Len(requests')]
                         IN /\ sent.kind = "SetupPipes"
                            /\ sent.args[1] = state.raw
                            /\ parse_i32(sent.args[2]) = Some(state.ephemeride)
                            /\ parse_i32(sent.args[3]) = Some(state.template)
               [] in.click = "clear" -> requests' = requests
               [] OTHER ->
                      /\ requests' = requests
                      /\ state'.kind = "Relaxed"
                      /\ state'.raw =
                             IF in.click = "raw" THEN in.raw ELSE state.raw
                      /\ state'.ephemeride =
                             IF in.click \in {"ephemeride", "grab"}
                             THEN in.key
                             ELSE state.ephemeride
                      /\ state'.template =
                             IF in.click = "template" THEN in.key
                             ELSE state.template]_vars

\* From the initial stage the entries were edited and submitted: the panel
\* is SettingUp with them and the one request carries them.
C25_Witness ==
    /\ pcall.name = "show"
    /\ pcall.arg.click = "write"
    /\ pcall.pre = Relaxed(<<"7">>, 1, 1)
    /\ state = SettingUp(<<"7">>, 1, 1)
    /\ Len(requests) = 1
    /\ requests[1].args = <<<<"7">>, <<"1">>, <<"1">>>>

\* C33: a submit from a Relaxed panel whose ephemeride entry holds its
\* initial value 0 sends SetupPipes with an ephemeride text that is empty
\* once trimmed, so that set_up_pipes makes no call of the ephemeride
\* resolver and answers None for the ephemeride when raw and template
\* resolve.
C33_UnchosenEphemerideIsNone ==
    [][(Submits /\ state.ephemeride = 0) =>
          LET sent == requests'[Len(requests')]
          IN /\ sent.kind = "SetupPipes"
             /\ trim(sent.args[2]) = <<>>
             /\ \A oracle \in SetupOracles :
                    LET did == set_up_pipes(sent.args[1], sent.args[2],
                                            sent.args[3], oracle)
                    IN /\ CallsOf(did.calls, "parse_input_ephemeride") = {}
                       /\ did.result.ok => did.result.value[2] = None]_vars

\* What the code does of C33: the request carries the text "0", which
\* set_up_pipes hands to the ephemeride resolver whenever raw resolves.
UnchosenEphemerideIsResolved ==
    [][(Submits /\ state.ephemeride = 0) =>
          LET sent == requests'[Len(requests')]
          IN /\ sent.args[2] = <<"0">>
             /\ \A oracle \in SetupOracles :
                    LET did == set_up_pipes(sent.args[1], sent.args[2],
                                            sent.args[3], oracle)
                    IN oracle.raw = "Ok" =>
                           \E i \in CallsOf(did.calls, "parse_input_ephemeride") :
                               did.calls[i].arg = <<"0">>]_vars

\* C27: a frame of show on a SettingUp panel leaves the stage with the raw,
\* ephemeride and template values it had.
C27_SettingUpFrozen ==
    (pcall.name = "show" /\ pcall.pre.kind = "SettingUp") => state = pcall.pre

\* What the code does of C27: the panel stays SettingUp and the raw text
\* and the template keep their values.
SettingUpKeepsRawAndTemplate ==
    (pcall.name = "show" /\ pcall.pre.kind = "SettingUp") =>
        /\ state.kind = "SettingUp"
        /\ state.raw = pcall.pre.raw
        /\ state.template = pcall.pre.template

\* Start over is offered: the run is finished or errored.
StartOverOffered(info) == msg_index(info.status) = 9 \/ info.errored

\* C28: a Finished event leaves the stage Running, and a click on Start
\* over, offered only when the run is finished or errored, returns the
\* panel to Relaxed.
C28_StartOverReturnsToRelaxed ==
    /\ (pcall.name = "set_status" /\ pcall.arg.name = "Finished") =>
           state.kind = "Running"
    /\ (pcall.name = "show" /\ pcall.pre.kind = "Running") =>
           IF StartOverOffered(pcall.pre.info) /\ pcall.arg.click = "restart"
           THEN state.kind = "Relaxed"
           ELSE state = pcall.pre

\* What the code does of C28: no event and no frame of show takes the
\* panel out of Running, Start over included.
RunningStaysRunning ==
    (pcall.name \in {"set_status", "show"} /\ pcall.pre.kind = "Running") =>
        state.kind = "Running"

\* C29: set_status on a Running stage never lowers the index of the stage
\* shown.
C29_IndexNeverDecreases ==
    (pcall.name = "set_status" /\ pcall.pre.kind = "Running") =>
        msg_index(state.info.status) >= msg_index(pcall.pre.info.status)

\* C30: a count of a Running stage that is set keeps its value when
\* set_status handles a further event.
C30_CountsKeepFirstValue ==
    (pcall.name = "set_status" /\ pcall.pre.kind = "Running") =>
        /\ pcall.pre.info.generated_toas # None =>
               state.info.generated_toas = pcall.pre.info.generated_toas
        /\ pcall.pre.info.archived_toas # None =>
               state.info.archived_toas = pcall.pre.info.archived_toas

(***************************************************************************)
(* The events of a run: Application::handle_message on the PipelineStatus  *)
(* messages of cook's callback, diagnostics included.                      *)
(***************************************************************************)
\* The outcomes a Running stage holds at most in one run of SpecRun.
MaxDiagnosed == 2

\* The names of the diagnostics.
Diagnostics == {"snr"}

\* The statuses of the messages handled in SpecRun.
RunStatuses ==
    {Status("Error", 0), Status("GotTOAs", 1), Status("ArchivedTOAs", 1),
     Status("Diagnosing", MaxDiagnosed), Status("Finished", 1)}
        \cup {FinishedDiagnostic(d, b) : d \in Diagnostics, b \in BOOLEAN}

\* Application::update hands a PipelineStatus message to handle_message.
HandleStatus ==
    \E status \in RunStatuses :
        LET after == handle_message(AppState, Msg("PipelineStatus", 1, status))
        IN /\ ui = "running"
           /\ status.name = "FinishedDiagnostic" =>
                  Len(state.info.diagnosed[2]) < MaxDiagnosed
           /\ state' = after.pipeline
           /\ pulsars' = after.pulsars
           /\ ephemerides' = after.ephemerides
           /\ toas' = after.toas
           /\ has_live_transaction' = after.has_live_transaction
           /\ pcall' = PCalled("handle_message", status)
           /\ UNCHANGED <<bridgeVars, cacheVars, tab, issued, handleVars>>

NextRun ==
    \/ HandleStatus
    \/ Reset

SpecRun == InitBuilt /\ [][NextRun]_vars

\* The outcomes of the diagnostics a stage holds.
Outcomes(st) == st.info.diagnosed[2]

\* C31: a PipelineStatus message handled in stage Running leaves every
\* outcome the stage held in its place, and FinishedDiagnostic appends
\* exactly its own (name, passed) pair.
C31_DiagnosedOnlyGrows ==
    (pcall.name = "handle_message" /\ pcall.pre.kind = "Running"
        /\ pcall.arg.name # "Error") =>
        /\ state.kind = "Running"
        /\ Outcomes(state) =
               IF pcall.arg.name = "FinishedDiagnostic"
               THEN Append(Outcomes(pcall.pre),
                           <<pcall.arg.diagnostic, pcall.arg.passed>>)
               ELSE Outcomes(pcall.pre)

\* What the code does of C31: every event but Diagnosing and Error keeps
\* the outcomes, and FinishedDiagnostic appends its pair.
DiagnosedGrowsButForDiagnosing ==
    (pcall.name = "handle_message" /\ pcall.pre.kind = "Running"
        /\ pcall.arg.name \notin {"Error", "Diagnosing"}) =>
        /\ state.kind = "Running"
        /\ Outcomes(state) =
               IF pcall.arg.name = "FinishedDiagnostic"
               THEN Append(Outcomes(pcall.pre),
                           <<pcall.arg.diagnostic, pcall.arg.passed>>)
               ELSE Outcomes(pcall.pre)

\* C32: a PipelineStatus(Error) message handled in stage Running leaves
\* Running with errored set and with the counts, the outcomes, the duration
\* and the status held before.
C32_ErrorKeepsRunInfo ==
    (pcall.name = "handle_message" /\ pcall.pre.kind = "Running"
        /\ pcall.arg.name = "Error") =>
        /\ state.kind = "Running"
        /\ state.info = [pcall.pre.info EXCEPT !.errored = TRUE]

\* What the code does of C32: the stage is Running with errored set and a
\* default RunInfo otherwise.
ErrorLeavesDefaultRunInfo ==
    (pcall.name = "handle_message" /\ pcall.arg.name = "Error") =>
        state = Running([DefaultInfo EXCEPT !.errored = TRUE])

(***************************************************************************)
(* The application with the delete button: Application::update over the    *)
(* bridge, with the three cache applets, downloads by id (which select the *)
(* item downloaded) and deletions.                                         *)
(***************************************************************************)
\* Requests the user issues in one run of SpecEdit.
MaxEditRequests == 3

\* What the user does in one frame: nothing, a click on a tab of the menu
\* bar or on one of its transaction buttons, on the download button of the
\* applet shown with "With ID" chosen, or on its delete button.
EditFrames ==
    {Frame(k, "-", "-", <<>>, FALSE, Input("none", <<>>, 0)) :
         k \in {"none", "delete", "commit", "rollback"}}
      \cup {Frame("download", "-", "Id", <<>>, FALSE, Input("none", <<>>, 0))}
      \cup {Frame("tab", t, "-", <<>>, FALSE, Input("none", <<>>, 0)) :
                t \in Tabs}

\* A frame of the application with the cache applets and their delete
\* buttons.
EditUpdate == \E in \in EditFrames : update(in, MaxEditRequests)

NextEdit ==
    \/ EditUpdate
    \/ AppWorkerRecv
    \/ AppWorkerRespond

SpecEdit == InitBuilt /\ [][NextEdit]_vars

(***************************************************************************)
(* Properties of the application with the delete button.                   *)
(***************************************************************************)
\* The frame enqueues a DeleteItem request.
Deletes ==
    /\ issued' # issued
    /\ issued'[Len(issued')].kind = "DeleteItem"

\* The cache of the applet the frame shows, as the frame's message left it.
Shown ==
    CASE tab' = "Pulsars" -> AfterMessage.pulsars
      [] tab' = "Ephemerides" -> AfterMessage.ephemerides
      [] tab' = "TOAs" -> AfterMessage.toas
      [] OTHER -> Applet(<<>>, None, FALSE)

\* C34: a frame enqueues DeleteItem only if an item is selected in the cache
\* of the applet shown, and the request carries the id of that item; a
\* frame on a cache with nothing selected enqueues no DeleteItem.
C34_DeleteNeedsSelection ==
    [][Deletes =>
          /\ Shown.selected # None
          /\ Shown.selected[1] < Len(Shown.data)
          /\ issued'[Len(issued')].args =
                 Shown.data[Shown.selected[1] + 1].id]_vars

\* The pulsar with id 1 was downloaded, which selected it, and deleted:
\* the request carries its id.
C34_Witness ==
    /\ Len(issued) = 2
    /\ issued[1].kind = "Download"
    /\ issued[2].kind = "DeleteItem"
    /\ issued[2].dt = "Pulsar"
    /\ issued[2].args = 1

\* C36: the DeleteItem a frame enqueues names the resource kind of the tab
\* shown: Pulsar in the pulsar tab, Ephemeride in the ephemeride tab and
\* Toa in the TOA tab.
C36_DeleteNamesOwnKind ==
    [][Deletes =>
          issued'[Len(issued')].dt =
              CASE tab' = "Pulsars" -> "Pulsar"
                [] tab' = "Ephemerides" -> "Ephemeride"
                [] tab' = "TOAs" -> "Toa"]_vars

\* What the code does of C36: the pulsar tab names Pulsar, and both the
\* ephemeride tab and the TOA tab name Toa.
DeleteNamesToaForEphemerides ==
    [][Deletes =>
          issued'[Len(issued')].dt =
              CASE tab' = "Pulsars" -> "Pulsar"
                [] tab' = "Ephemerides" -> "Toa"
                [] tab' = "TOAs" -> "Toa"]_vars

=============================================================================
